---- MODULE Spec2Model ----
(***************************************************************************)
(* Model of the butterfly sitemap routing core:                            *)
(*   PatternMatcher (parsers/pattern-matcher.ts),                          *)
(*   SitemapRouter  (services/sitemap-router.ts),                          *)
(*   SitemapParser  (parsers/sitemap-parser.ts, schemas/sitemap-schema.ts) *)
(*   ButterflyHandler (handlers/butterfly-handler.ts).                     *)
(*                                                                         *)
(* A JavaScript string is a sequence of one-character strings, so that     *)
(* the matcher, the escaping and the substitution work on characters.      *)
(***************************************************************************)
EXTENDS Integers, Sequences, FiniteSets, TLC

VARIABLES
    pc,            \* position of the call in flight of the specification
    path,          \* PatternMatcher.match: argument path
    pattern,       \* PatternMatcher.match: argument pattern
    matchResult,   \* PatternMatcher.match: returned Option (or thrown error)
    pathname,      \* matchRequest / process: argument pathname
    sitemap,       \* matchRequest: argument sitemap; process: local sitemap
    routeMatch,    \* matchRequest: returned RouteMatch (or thrown error)
    assetStore,    \* what the AssetLoader holds at .moneta/sitemap.xml
    maybeSitemapXml,   \* process: local maybeSitemapXml
    sitemapValidation, \* process: local sitemapValidation
    result,        \* process: returned ButterflyHandlerResult (or failure)
    templateIn,    \* PatternMatcher.substitute: argument template
    capturesIn,    \* PatternMatcher.substitute: argument substitutions
    substituted,   \* PatternMatcher.substitute: returned string
    xmlDocument,   \* SitemapParser.parse: argument xmlContent
    rawParsed,     \* SitemapParser.parse: local rawSitemap
    parseResult,   \* SitemapParser.parse: the Sitemap or the error it ends with
    buildVersion,      \* build: the version of ssg-generator.ts that runs
    sourceFiles,       \* build: the files below sourceDir
    unreadableFiles,   \* build: those of them copyFile cannot read
    sitemapInSource,   \* build: .moneta/sitemap.xml below sourceDir
    sitemapInRoot,     \* build: .moneta/sitemap.xml below the working directory
    buildSitemap,      \* build: local sitemap
    pendingRules,      \* build: the matches the loops have yet to take
    pendingAssets,     \* build: the assets the first loop has yet to take
    allAssets,         \* build: the assets the last loop has yet to take
    generatedRoutes,   \* build: local generatedRoutes
    processedAssets,   \* build: local processedAssets
    copiedDirectly,    \* build: local copiedDirectly
    outputFiles,       \* build: the files below outputDir
    buildResult,       \* build: returned SSGGeneratorResult
    urlIn,             \* output path of a URL: the route URL
    generatedPath,     \* generateOutputPath: returned path, when it has returned
    staticPath,        \* generateStaticOutputPath: returned path, when it has returned
    sharedSitemap,     \* concurrent calls: the Sitemap value the calls share
    calls              \* concurrent calls: each matchRequest call in flight, with its locals

vars == <<pc, path, pattern, matchResult, pathname, sitemap, routeMatch,
          assetStore, maybeSitemapXml, sitemapValidation, result,
          templateIn, capturesIn, substituted,
          xmlDocument, rawParsed, parseResult,
          buildVersion, sourceFiles, unreadableFiles, sitemapInSource, sitemapInRoot, buildSitemap,
          pendingRules, pendingAssets, allAssets, generatedRoutes, processedAssets,
          copiedDirectly, outputFiles, buildResult,
          urlIn, generatedPath, staticPath,
          sharedSitemap, calls>>

----------------------------------------------------------------------------
(* Strings *)

\* every sequence over S of length at most n
SeqsUpTo(S, n) == UNION {[1..k -> S] : k \in 0..n}

\* the first character of s is c
StartsWith(s, c) == Len(s) >= 1 /\ s[1] = c

\* the last Len(suf) characters of s are suf
EndsWith(s, suf) ==
    /\ Len(s) >= Len(suf)
    /\ SubSeq(s, Len(s) - Len(suf) + 1, Len(s)) = suf

Contains(s, c) == \E i \in 1..Len(s) : s[i] = c

\* s from position i (1-based) to its end
From(s, i) == SubSeq(s, i, Len(s))

\* the value JavaScript calls undefined, where a string is expected: no
\* string, since every character of a string is a one-character string
Undefined == <<"undefined">>

LineTerminators == {"\n"}

----------------------------------------------------------------------------
(* PatternMatcher.patternToRegex: the source text of the regular expression.
   The two placeholders and the two groups are single tokens of the text. *)

\* the characters of the class [.+^${}()|[\]\\]
RegexSpecial == {".", "+", "^", "$", "{", "}", "(", ")", "|", "[", "]", "\\"}

DOUBLESTAR == "___DOUBLESTAR___"
SINGLESTAR == "___SINGLESTAR___"
AnyGroup == "(.*)"
SegGroup == "([^/]*)"

RECURSIVE EscapeSpecials(_)
\* .replace(/[.+^${}()|[\]\\]/g, "\\$&")
EscapeSpecials(s) ==
    IF s = <<>> THEN <<>>
    ELSE IF Head(s) \in RegexSpecial
         THEN <<"\\", Head(s)>> \o EscapeSpecials(Tail(s))
         ELSE <<Head(s)>> \o EscapeSpecials(Tail(s))

RECURSIVE ReplaceDoubleStar(_)
\* .replace(/\*\*/g, "___DOUBLESTAR___"): leftmost pairs, not overlapping
ReplaceDoubleStar(s) ==
    IF s = <<>> THEN <<>>
    ELSE IF Len(s) >= 2 /\ s[1] = "*" /\ s[2] = "*"
         THEN <<DOUBLESTAR>> \o ReplaceDoubleStar(Tail(Tail(s)))
         ELSE <<Head(s)>> \o ReplaceDoubleStar(Tail(s))

\* s with every element equal to a replaced by b
ReplaceAll(s, a, b) == [i \in 1..Len(s) |-> IF s[i] = a THEN b ELSE s[i]]

patternToRegex(p) ==
    LET escaped == ReplaceAll(ReplaceDoubleStar(EscapeSpecials(p)), "*", SINGLESTAR)
    IN  ReplaceAll(ReplaceAll(escaped, DOUBLESTAR, AnyGroup), SINGLESTAR, SegGroup)

----------------------------------------------------------------------------
(* new RegExp(`^${regexPattern}$`): the terms of the expression. A term is
   a literal character or one of the two groups, taken once ("one"),
   optionally and greedily ("opt", a following ?) or optionally and lazily
   ("lazy", a following ??). A ? with nothing to repeat is a SyntaxError.
   The expressions of the build have two more terms: an unescaped dot
   ("dot") and the group (.+) ("plus"). *)

Term(k, c, q) == [k |-> k, c |-> c, q |-> q]

SyntaxError == [ok |-> FALSE, terms |-> <<>>]

RECURSIVE CompileFrom(_, _)
CompileFrom(src, acc) ==
    IF src = <<>> THEN [ok |-> TRUE, terms |-> acc]
    ELSE LET c == Head(src) IN
         IF c = "\\"
         THEN CompileFrom(Tail(Tail(src)), Append(acc, Term("lit", src[2], "one")))
         ELSE IF c = "?"
         THEN IF acc = <<>> THEN SyntaxError
              ELSE LET last == acc[Len(acc)] IN
                   IF last.q = "one"
                   THEN CompileFrom(Tail(src), [acc EXCEPT ![Len(acc)].q = "opt"])
                   ELSE IF last.q = "opt"
                   THEN CompileFrom(Tail(src), [acc EXCEPT ![Len(acc)].q = "lazy"])
                   ELSE SyntaxError
         ELSE IF c = AnyGroup
         THEN CompileFrom(Tail(src), Append(acc, Term("any", "", "one")))
         ELSE IF c = SegGroup
         THEN CompileFrom(Tail(src), Append(acc, Term("seg", "", "one")))
         ELSE CompileFrom(Tail(src), Append(acc, Term("lit", c, "one")))

RegExp(src) == CompileFrom(src, <<>>)

----------------------------------------------------------------------------
(* String.prototype.match with the anchored expression: backtracking in the
   order of ECMAScript, so that the captures are those of the first
   alternative that succeeds. *)

NoMatch == [ok |-> FALSE, caps |-> <<>>]

\* . matches any character but a line terminator
DotChar(c) == c \notin LineTerminators

\* mutant: the class of the single star also takes '/'
NotSlashCharAny(c) == TRUE

\* [^/] matches any character but /
NotSlashChar(c) == c # "/"

InClass(k, c) == IF k \in {"any", "plus"} THEN DotChar(c) ELSE NotSlashChar(c)

\* the least number of characters a group takes: one for (.+)
LeastOf(k) == IF k = "plus" THEN 1 ELSE 0

RECURSIVE RunLength(_, _, _)
\* the number of characters of s from position j on that are all in class k
RunLength(k, s, j) ==
    IF j > Len(s) \/ ~InClass(k, s[j]) THEN 0 ELSE 1 + RunLength(k, s, j + 1)

RECURSIVE MatchTerms(_, _, _), TryGroup(_, _, _, _, _)
\* the terms against s from position j to the end of s
MatchTerms(terms, s, j) ==
    IF terms = <<>> THEN [ok |-> j = Len(s) + 1, caps |-> <<>>]
    ELSE LET t == Head(terms)
             rest == Tail(terms)
             skip == MatchTerms(rest, s, j)
         IN  IF t.k \in {"lit", "dot"}
             THEN LET take == IF j <= Len(s)
                                 /\ (IF t.k = "lit" THEN s[j] = t.c ELSE DotChar(s[j]))
                              THEN MatchTerms(rest, s, j + 1) ELSE NoMatch
                  IN  IF t.q = "one" THEN take
                      ELSE IF t.q = "opt" THEN (IF take.ok THEN take ELSE skip)
                      ELSE (IF skip.ok THEN skip ELSE take)
             ELSE LET longest == RunLength(t.k, s, j)
                      \* a group that is left out captures undefined
                      left == IF skip.ok
                              THEN [ok |-> TRUE, caps |-> <<Undefined>> \o skip.caps]
                              ELSE NoMatch
                      \* an optional group is not taken for an empty match
                      taken == TryGroup(rest, s, j, longest, 1)
                  IN  IF t.q = "one" THEN TryGroup(rest, s, j, longest, LeastOf(t.k))
                      ELSE IF t.q = "opt" THEN (IF taken.ok THEN taken ELSE left)
                      ELSE (IF left.ok THEN left ELSE taken)

\* the group takes len characters, then len - 1, ... down to least
TryGroup(rest, s, j, len, least) ==
    IF len < least THEN NoMatch
    ELSE LET r == MatchTerms(rest, s, j + len) IN
         IF r.ok
         THEN [ok |-> TRUE, caps |-> <<SubSeq(s, j, j + len - 1)>> \o r.caps]
         ELSE TryGroup(rest, s, j, len - 1, least)

----------------------------------------------------------------------------
(* PatternMatcher.match *)

None == [tag |-> "None", substitutions |-> <<>>]
Some(subs) == [tag |-> "Some", substitutions |-> subs]
Throw == [tag |-> "Throw", substitutions |-> <<>>]

\* mutant: the guard of the empty pattern without the test of the empty path
matchEmptyPatternGuardOnly(p, pat) ==
    IF pat = <<>> /\ p = <<>> THEN Some(<<p>>)
    ELSE IF pat = <<>> THEN None
    ELSE LET regex == RegExp(patternToRegex(pat)) IN
         IF ~regex.ok THEN Throw
         ELSE LET m == MatchTerms(regex.terms, p, 1) IN
              IF m.ok THEN Some(<<p>> \o m.caps) ELSE None

match(p, pat) ==
    IF pat = <<>> /\ p = <<>> THEN Some(<<p>>)
    ELSE IF pat = <<>> \/ p = <<>> THEN None
    ELSE LET regex == RegExp(patternToRegex(pat)) IN
         IF ~regex.ok THEN Throw
         ELSE LET m == MatchTerms(regex.terms, p, 1) IN
              IF m.ok THEN Some(<<p>> \o m.caps) ELSE None

----------------------------------------------------------------------------
(* PatternMatcher.substitute *)

DigitChars == {"0", "1", "2", "3", "4", "5", "6", "7", "8", "9"}

DigitValue(c) ==
    CASE c = "0" -> 0 [] c = "1" -> 1 [] c = "2" -> 2 [] c = "3" -> 3
      [] c = "4" -> 4 [] c = "5" -> 5 [] c = "6" -> 6 [] c = "7" -> 7
      [] c = "8" -> 8 [] c = "9" -> 9

RECURSIVE DigitRun(_, _)
\* the number of digits of s from position j on
DigitRun(s, j) ==
    IF j > Len(s) \/ s[j] \notin DigitChars THEN 0 ELSE 1 + DigitRun(s, j + 1)

RECURSIVE parseInt(_)
\* parseInt(index, 10) of a run of digits
parseInt(ds) ==
    IF ds = <<>> THEN 0
    ELSE 10 * parseInt(SubSeq(ds, 1, Len(ds) - 1)) + DigitValue(ds[Len(ds)])

RECURSIVE substituteOutOfRangeEmpty(_, _, _)
\* mutant: a placeholder whose index has no substitution is removed
substituteOutOfRangeEmpty(template, originalPath, substitutions) ==
    IF template = <<>> THEN <<>>
    ELSE LET n == DigitRun(template, 2) IN
         IF template[1] = "{" /\ n >= 1 /\ Len(template) >= n + 2
                /\ template[n + 2] = "}"
         THEN LET idx == parseInt(SubSeq(template, 2, n + 1))
                  value == IF idx + 1 <= Len(substitutions)
                              /\ substitutions[idx + 1] # Undefined
                           THEN substitutions[idx + 1] ELSE <<>>
              IN  value \o substituteOutOfRangeEmpty(From(template, n + 3),
                                                     originalPath, substitutions)
         ELSE <<template[1]>> \o substituteOutOfRangeEmpty(Tail(template),
                                                           originalPath, substitutions)

RECURSIVE substitute(_, _, _)
\* template.replace(/\{(\d+)\}/g, ...): a placeholder whose index has a
\* defined substitution is replaced, any other is left as it is written
substitute(template, originalPath, substitutions) ==
    IF template = <<>> THEN <<>>
    ELSE LET n == DigitRun(template, 2) IN
         IF template[1] = "{" /\ n >= 1 /\ Len(template) >= n + 2
                /\ template[n + 2] = "}"
         THEN LET idx == parseInt(SubSeq(template, 2, n + 1))
                  whole == SubSeq(template, 1, n + 2)
                  value == IF idx + 1 <= Len(substitutions)
                              /\ substitutions[idx + 1] # Undefined
                           THEN substitutions[idx + 1] ELSE whole
              IN  value \o substitute(From(template, n + 3), originalPath, substitutions)
         ELSE <<template[1]>> \o substitute(Tail(template), originalPath, substitutions)

----------------------------------------------------------------------------
(* Sitemap values (schemas/sitemap-schema.ts). An optional field that is
   not set is a field the record does not have. *)

Read(src) == [type |-> "read", src |-> src]
ReadRange(src, rangeSupport) ==
    [type |-> "read", src |-> src, rangeSupport |-> rangeSupport]
Generate(generator) == [type |-> "generate", generator |-> generator]
Transform(src, transformer) ==
    [type |-> "transform", src |-> src, transformer |-> transformer]

Rule(pat, action) == [pattern |-> pat, action |-> action]

Has(r, f) == f \in DOMAIN r

----------------------------------------------------------------------------
(* SitemapRouter.matchRequest. A call returns a value or throws. *)

Return(v) == [outcome |-> "return", value |-> v]
Thrown(e) == [outcome |-> "throw", value |-> [error |-> e]]

Unmatched == [matched |-> FALSE]

\* mutant: only a read action has its src substituted
ResolveAssetPathReadOnly(rule, cleanPath, substitutions) ==
    IF rule.action.type = "read"
    THEN substitute(rule.action.src, cleanPath, substitutions)
    ELSE cleanPath

\* the onSome branch: the asset path of a rule that matched
ResolveAssetPath(rule, cleanPath, substitutions) ==
    IF rule.action.type = "read"
    THEN substitute(rule.action.src, cleanPath, substitutions)
    ELSE IF rule.action.type = "transform"
    THEN substitute(rule.action.src, cleanPath, substitutions)
    ELSE cleanPath

Continue == [outcome |-> "continue", value |-> Unmatched]

RECURSIVE MatchPipeline(_, _)
\* the inner loop: the first rule of the pipeline that matches returns, a
\* rule whose pattern does not compile throws, no rule matching goes on
MatchPipeline(matches, cleanPath) ==
    IF matches = <<>> THEN Continue
    ELSE LET rule == Head(matches)
             maybeResult == match(cleanPath, rule.pattern)
         IN  IF maybeResult.tag = "Throw" THEN Thrown("SyntaxError")
             ELSE IF maybeResult.tag = "Some"
             THEN Return([matched |-> TRUE,
                          assetPath |-> ResolveAssetPath(rule, cleanPath,
                                                         maybeResult.substitutions),
                          action |-> rule.action])
             ELSE MatchPipeline(Tail(matches), cleanPath)

RECURSIVE MatchPipelinesLastFirst(_, _)
\* mutant: the outer loop visits the pipelines from the last to the first
MatchPipelinesLastFirst(pipelines, cleanPath) ==
    IF pipelines = <<>> THEN Return(Unmatched)
    ELSE LET r == MatchPipeline(pipelines[Len(pipelines)].matches, cleanPath) IN
         IF r.outcome = "continue"
         THEN MatchPipelinesLastFirst(SubSeq(pipelines, 1, Len(pipelines) - 1),
                                      cleanPath)
         ELSE r

RECURSIVE MatchPipelines(_, _)
\* the outer loop over the pipelines in document order
MatchPipelines(pipelines, cleanPath) ==
    IF pipelines = <<>> THEN Return(Unmatched)
    ELSE LET r == MatchPipeline(Head(pipelines).matches, cleanPath) IN
         IF r.outcome = "continue"
         THEN MatchPipelines(Tail(pipelines), cleanPath)
         ELSE r

CleanPath(p) == IF StartsWith(p, "/") THEN Tail(p) ELSE p

matchRequest(p, sm) == MatchPipelines(sm.pipelines, CleanPath(p))

----------------------------------------------------------------------------
(* SitemapParser.generateDefaultSitemap *)

VideoExtensions ==
    { <<"m", "p", "4">>, <<"w", "e", "b", "m">>, <<"m", "o", "v">>,
      <<"a", "v", "i">>, <<"m", "k", "v">> }

S_indexHtml == <<"i", "n", "d", "e", "x", ".", "h", "t", "m", "l">>

generateDefaultSitemap ==
    [pipelines |-> <<
        [matches |-> <<
            Rule(<<>>, Read(S_indexHtml)),
            Rule(<<"*", "*", "/">>, Read(<<"{", "1", "}", "/">> \o S_indexHtml)),
            Rule(<<"*", "*", ".", "m", "p", "4">>, ReadRange(<<"{", "0", "}">>, TRUE)),
            Rule(<<"*", "*", ".", "w", "e", "b", "m">>, ReadRange(<<"{", "0", "}">>, TRUE)),
            Rule(<<"*", "*", ".", "m", "o", "v">>, ReadRange(<<"{", "0", "}">>, TRUE)),
            Rule(<<"*", "*", ".", "a", "v", "i">>, ReadRange(<<"{", "0", "}">>, TRUE)),
            Rule(<<"*", "*", ".", "m", "k", "v">>, ReadRange(<<"{", "0", "}">>, TRUE)),
            Rule(<<"*", "*", ".", "*">>, Read(<<"{", "0", "}">>)),
            Rule(<<"*", "*">>, Read(<<"{", "1", "}", ".", "h", "t", "m", "l">>))
        >>]
    >>]

----------------------------------------------------------------------------
(* JavaScript values of the tree the XML parser returns: a string (an
   attribute value, or the text of an element: "" for an empty element),
   an object (an element with attributes or children), an array (repeated
   sibling elements) or undefined (a property that is not there). *)

Str(s) == [t |-> "string", str |-> s, arr |-> <<>>, obj |-> <<>>]
Obj(fields) == [t |-> "object", str |-> <<>>, arr |-> <<>>, obj |-> fields]
Arr(items) == [t |-> "array", str |-> <<>>, arr |-> items, obj |-> <<>>]
Undef == [t |-> "undefined", str |-> <<>>, arr |-> <<>>, obj |-> <<>>]

\* what `if (v)` and `v || ...` test
Truthy(v) == v.t \in {"object", "array"} \/ (v.t = "string" /\ v.str # <<>>)

\* o[k] for o that is not undefined
Get(o, k) == IF o.t = "object" /\ k \in DOMAIN o.obj THEN o.obj[k] ELSE Undef

\* Array.isArray(v) ? v : [v]
AsArray(v) == IF v.t = "array" THEN v.arr ELSE <<v>>

S_true == <<"t", "r", "u", "e">>

----------------------------------------------------------------------------
(* SitemapParser.parse. The document is given by what XMLParser.parse does
   with it: it throws, or it returns a tree. *)

Left(e) == [either |-> "Left", left |-> e, right |-> <<>>]
Right(v) == [either |-> "Right", left |-> <<>>, right |-> v]

SitemapXmlParseError(detail) ==
    [tag |-> "SitemapXmlParseError",
     message |-> "Failed to parse sitemap XML: " \o detail]
SitemapValidationError(detail) ==
    [tag |-> "SitemapValidationError",
     message |-> "Sitemap validation failed: " \o detail]
SitemapStructureError(message, missingElement) ==
    [tag |-> "SitemapStructureError", message |-> message,
     missingElement |-> missingElement]

\* mutant: any rangeSupport attribute that is not empty gives true
parseMatchAnyRangeSupport(matchElement) ==
    LET pattern_ == IF Truthy(Get(matchElement, "@_pattern"))
                    THEN Get(matchElement, "@_pattern") ELSE Str(<<>>)
        readElement == Get(matchElement, "map:read")
        generateElement == Get(matchElement, "map:generate")
        transformElement == Get(matchElement, "map:transform")
        action ==
            IF Truthy(readElement)
            THEN [type |-> "read", src |-> Get(readElement, "@_src"),
                  rangeSupport |-> Truthy(Get(readElement, "@_rangeSupport"))]
            ELSE IF Truthy(generateElement)
            THEN [type |-> "generate",
                  generator |-> Get(generateElement, "@_generator")]
            ELSE IF Truthy(transformElement)
            THEN [type |-> "transform",
                  transformer |-> Get(transformElement, "@_transformer"),
                  src |-> Get(transformElement, "@_src")]
            ELSE [type |-> "read", src |-> pattern_, rangeSupport |-> FALSE]
    IN  [pattern |-> pattern_, action |-> action]

parseMatch(matchElement) ==
    LET pattern_ == IF Truthy(Get(matchElement, "@_pattern"))
                    THEN Get(matchElement, "@_pattern") ELSE Str(<<>>)
        readElement == Get(matchElement, "map:read")
        generateElement == Get(matchElement, "map:generate")
        transformElement == Get(matchElement, "map:transform")
        action ==
            IF Truthy(readElement)
            THEN [type |-> "read", src |-> Get(readElement, "@_src"),
                  rangeSupport |-> Get(readElement, "@_rangeSupport") = Str(S_true)]
            ELSE IF Truthy(generateElement)
            THEN [type |-> "generate",
                  generator |-> Get(generateElement, "@_generator")]
            ELSE IF Truthy(transformElement)
            THEN [type |-> "transform",
                  transformer |-> Get(transformElement, "@_transformer"),
                  src |-> Get(transformElement, "@_src")]
            ELSE [type |-> "read", src |-> pattern_, rangeSupport |-> FALSE]
    IN  [pattern |-> pattern_, action |-> action]

\* for a pipeline element that is not undefined
parsePipeline(pipelineElement) ==
    LET matchValue == Get(pipelineElement, "map:match") IN
    IF ~Truthy(matchValue) THEN [matches |-> <<>>]
    ELSE LET matchElements == AsArray(matchValue) IN
         [matches |-> [i \in 1..Len(matchElements) |-> parseMatch(matchElements[i])]]

\* Schema.String.pipe(Schema.minLength(1))
NonEmptyString(v) == v.t = "string" /\ Len(v.str) >= 1

\* SitemapActionSchema: the union of the three action structs
ValidAction(a) ==
    \/ a.type = "read" /\ NonEmptyString(a.src)
    \/ a.type = "generate" /\ NonEmptyString(a.generator)
    \/ a.type = "transform" /\ NonEmptyString(a.src) /\ NonEmptyString(a.transformer)

\* SitemapSchema over the raw sitemap
ValidSitemap(raw) ==
    /\ Len(raw.pipelines) >= 1
    /\ \A i \in 1..Len(raw.pipelines) :
         \A j \in 1..Len(raw.pipelines[i].matches) :
            LET m == raw.pipelines[i].matches[j] IN
            m.pattern.t = "string" /\ ValidAction(m.action)

\* the decoded value of a valid action: strings instead of tree values
DecodeAction(a) ==
    IF a.type = "read" THEN ReadRange(a.src.str, a.rangeSupport)
    ELSE IF a.type = "generate" THEN Generate(a.generator.str)
    ELSE Transform(a.src.str, a.transformer.str)

DecodeSitemap(raw) ==
    [pipelines |-> [i \in 1..Len(raw.pipelines) |->
        [matches |-> [j \in 1..Len(raw.pipelines[i].matches) |->
            LET m == raw.pipelines[i].matches[j] IN
            Rule(m.pattern.str, DecodeAction(m.action))]]]]

\* the body of Effect.try and its catch: the raw sitemap, or the error
TryParseXml(xmlContent) ==
    IF ~xmlContent.wellFormed
    THEN Left(SitemapXmlParseError("<XMLParser error>"))
    ELSE LET parsed == xmlContent.tree
             sitemapElement == Get(parsed, "map:sitemap")
             pipelinesElement == Get(sitemapElement, "map:pipelines")
             pipelineElements == AsArray(Get(pipelinesElement, "map:pipeline"))
         IN  IF ~Truthy(sitemapElement)
             THEN Left(SitemapStructureError("Root element 'map:sitemap' not found",
                                             "map:sitemap"))
             ELSE IF ~Truthy(pipelinesElement)
             THEN Left(SitemapStructureError("'map:pipelines' element not found",
                                             "map:pipelines"))
             ELSE IF \E i \in 1..Len(pipelineElements) : pipelineElements[i] = Undef
             \* parsePipeline reads a property of undefined: a TypeError
             THEN Left(SitemapXmlParseError(
                          "Cannot read properties of undefined (reading 'map:match')"))
             ELSE Right([pipelines |-> [i \in 1..Len(pipelineElements) |->
                                          parsePipeline(pipelineElements[i])]])

\* Schema.decodeUnknown(SitemapSchema)(rawSitemap) and its catchAll
DecodeUnknown(raw) ==
    IF ValidSitemap(raw) THEN Right(DecodeSitemap(raw))
    ELSE IF Len(raw.pipelines) = 0
    THEN Left(SitemapValidationError("At least one pipeline is required"))
    ELSE Left(SitemapValidationError("<ParseError>"))

parse(xmlContent) ==
    LET tried == TryParseXml(xmlContent) IN
    IF tried.either = "Left" THEN tried ELSE DecodeUnknown(tried.right)

----------------------------------------------------------------------------
(* ButterflyHandler.process, up to the sitemap it routes with *)

\* Effect.catchTags({AssetNotFoundError: ...}): what loadAsset gives process
LoadSitemapXml(store) ==
    IF store.state = "present" THEN Return([some |-> TRUE, xml |-> store.content])
    ELSE IF store.state = "absent" THEN Return([some |-> FALSE, xml |-> <<>>])
    ELSE Thrown(store.state)

\* a value that may be undefined
Nothing == [defined |-> FALSE, value |-> <<>>]
Just(v) == [defined |-> TRUE, value |-> v]

\* mutant: a parse failure is reported without its message
SitemapResultDropsMessage(maybeXml) ==
    IF ~maybeXml.some
    THEN [sitemap |-> generateDefaultSitemap, validation |-> Nothing]
    ELSE LET either == parse(maybeXml.xml) IN
         IF either.either = "Left"
         THEN [sitemap |-> generateDefaultSitemap,
               validation |-> Just([success |-> FALSE, errors |-> <<>>])]
         ELSE [sitemap |-> either.right, validation |-> Just([success |-> TRUE])]

\* mutant: the default sitemap of an absent document is reported as valid
SitemapResultValidatesDefault(maybeXml) ==
    IF ~maybeXml.some
    THEN [sitemap |-> generateDefaultSitemap,
          validation |-> Just([success |-> TRUE])]
    ELSE LET either == parse(maybeXml.xml) IN
         IF either.either = "Left"
         THEN [sitemap |-> generateDefaultSitemap,
               validation |-> Just([success |-> FALSE,
                                    errors |-> <<either.left.message>>])]
         ELSE [sitemap |-> either.right, validation |-> Just([success |-> TRUE])]

\* mutant: a custom sitemap that parses is validated but not routed with
SitemapResultIgnoresCustom(maybeXml) ==
    IF ~maybeXml.some
    THEN [sitemap |-> generateDefaultSitemap, validation |-> Nothing]
    ELSE LET either == parse(maybeXml.xml) IN
         IF either.either = "Left"
         THEN [sitemap |-> generateDefaultSitemap,
               validation |-> Just([success |-> FALSE,
                                    errors |-> <<either.left.message>>])]
         ELSE [sitemap |-> generateDefaultSitemap,
               validation |-> Just([success |-> TRUE])]

\* Option.match(maybeSitemapXml, ...): the sitemap and its validation info
SitemapResult(maybeXml) ==
    IF ~maybeXml.some
    THEN [sitemap |-> generateDefaultSitemap, validation |-> Nothing]
    ELSE LET either == parse(maybeXml.xml) IN
         IF either.either = "Left"
         THEN [sitemap |-> generateDefaultSitemap,
               validation |-> Just([success |-> FALSE,
                                    errors |-> <<either.left.message>>])]
         ELSE [sitemap |-> either.right, validation |-> Just([success |-> TRUE])]

\* r with the field f set to the value of opt, unless that is undefined
WithOptional(r, f, opt) ==
    IF ~opt.defined THEN r
    ELSE [k \in DOMAIN r \cup {f} |-> IF k = f THEN opt.value ELSE r[k]]

\* mutant: fallbackToDefault tells that the default sitemap stood in for a
\* custom sitemap that failed to parse
HandlerResultFallbackOnParseFailure(rm, validation) ==
    IF ~rm.matched
    THEN WithOptional([matched |-> FALSE, fallbackToDefault |-> TRUE],
                      "sitemapValidation", validation)
    ELSE WithOptional(
           WithOptional([matched |-> TRUE, assetPath |-> rm.assetPath,
                         fallbackToDefault |->
                            (validation.defined /\ ~validation.value.success)],
                        "rangeSupport",
                        IF rm.action.type = "read"
                        THEN (IF Has(rm.action, "rangeSupport")
                              THEN Just(rm.action.rangeSupport) ELSE Nothing)
                        ELSE Just(FALSE)),
           "sitemapValidation", validation)

\* the two return statements of process
HandlerResult(rm, validation) ==
    IF ~rm.matched
    THEN WithOptional([matched |-> FALSE, fallbackToDefault |-> TRUE],
                      "sitemapValidation", validation)
    ELSE WithOptional(
           WithOptional([matched |-> TRUE, assetPath |-> rm.assetPath,
                         fallbackToDefault |-> FALSE],
                        "rangeSupport",
                        IF rm.action.type = "read"
                        THEN (IF Has(rm.action, "rangeSupport")
                              THEN Just(rm.action.rangeSupport) ELSE Nothing)
                        ELSE Just(FALSE)),
           "sitemapValidation", validation)

----------------------------------------------------------------------------
(* Strings and paths of the build (String.prototype and the module path of
   Node, POSIX flavour) *)

\* String.prototype.includes
Includes(s, sub) ==
    \E i \in 1..(Len(s) - Len(sub) + 1) : SubSeq(s, i, i + Len(sub) - 1) = sub

\* String.prototype.indexOf, counted from 1; 0 when sub does not occur
IndexOf(s, sub) ==
    IF \A i \in 1..(Len(s) - Len(sub) + 1) : SubSeq(s, i, i + Len(sub) - 1) # sub
    THEN 0
    ELSE CHOOSE i \in 1..(Len(s) - Len(sub) + 1) :
            /\ SubSeq(s, i, i + Len(sub) - 1) = sub
            /\ \A k \in 1..(i - 1) : SubSeq(s, k, k + Len(sub) - 1) # sub

\* s with the n characters from position i on replaced by the string by;
\* s itself when i is 0
ReplaceAt(s, i, n, by) ==
    IF i = 0 THEN s ELSE SubSeq(s, 1, i - 1) \o by \o From(s, i + n)

\* s.replace(sub, by) with a string sub: the first occurrence only
\* (by holds no '$', which replace would read as a replacement pattern)
ReplaceFirst(s, sub, by) == ReplaceAt(s, IndexOf(s, sub), Len(sub), by)

RECURSIVE ReplaceEvery(_, _, _)
\* s.replace(/sub/g, by): every occurrence, from left to right
ReplaceEvery(s, sub, by) ==
    IF Len(s) < Len(sub) THEN s
    ELSE IF SubSeq(s, 1, Len(sub)) = sub
    THEN by \o ReplaceEvery(From(s, Len(sub) + 1), sub, by)
    ELSE <<Head(s)>> \o ReplaceEvery(Tail(s), sub, by)

RECURSIVE SplitFrom(_, _, _)
\* the parts of s at the character c, the part in hand being acc
SplitFrom(s, c, acc) ==
    IF s = <<>> THEN <<acc>>
    ELSE IF Head(s) = c THEN <<acc>> \o SplitFrom(Tail(s), c, <<>>)
    ELSE SplitFrom(Tail(s), c, Append(acc, Head(s)))

\* s.split(c) for a character c
Split(s, c) == SplitFrom(s, c, <<>>)

RECURSIVE JoinWith(_, _)
\* parts.join(c)
JoinWith(parts, c) ==
    IF parts = <<>> THEN <<>>
    ELSE IF Len(parts) = 1 THEN parts[1]
    ELSE parts[1] \o <<c>> \o JoinWith(Tail(parts), c)

S_dot == <<".">>
S_dotDot == <<".", ".">>

RECURSIVE NormalizeSegments(_, _, _)
\* normalizeString of path.normalize: empty and '.' segments are dropped,
\* '..' takes the segment before it away (and stays, in a relative path,
\* when there is none)
NormalizeSegments(segs, acc, isAbsolute) ==
    IF segs = <<>> THEN acc
    ELSE IF Head(segs) = <<>> \/ Head(segs) = S_dot
    THEN NormalizeSegments(Tail(segs), acc, isAbsolute)
    ELSE IF Head(segs) # S_dotDot
    THEN NormalizeSegments(Tail(segs), Append(acc, Head(segs)), isAbsolute)
    ELSE IF acc # <<>> /\ acc[Len(acc)] # S_dotDot
    THEN NormalizeSegments(Tail(segs), SubSeq(acc, 1, Len(acc) - 1), isAbsolute)
    ELSE IF isAbsolute
    THEN NormalizeSegments(Tail(segs), acc, isAbsolute)
    ELSE NormalizeSegments(Tail(segs), Append(acc, Head(segs)), isAbsolute)

\* the normalized path of the segments body: the root and the trailing
\* separator are kept
NormalizedPath(body, isAbsolute, trailing) ==
    IF body = <<>>
    THEN (IF isAbsolute THEN <<"/">> ELSE IF trailing THEN <<".", "/">> ELSE S_dot)
    ELSE (IF isAbsolute THEN <<"/">> ELSE <<>>) \o body
         \o (IF trailing THEN <<"/">> ELSE <<>>)

\* path.normalize
Normalize(p) ==
    IF p = <<>> THEN S_dot
    ELSE NormalizedPath(
            JoinWith(NormalizeSegments(Split(p, "/"), <<>>, StartsWith(p, "/")), "/"),
            StartsWith(p, "/"), EndsWith(p, <<"/">>))

\* path.join(a, b)
PathJoin(a, b) ==
    IF a = <<>> THEN Normalize(b)
    ELSE IF b = <<>> THEN Normalize(a)
    ELSE Normalize(a \o <<"/">> \o b)

\* the last of the segments that are not empty
LastNonEmpty(segs) ==
    IF \A i \in 1..Len(segs) : segs[i] = <<>> THEN <<>>
    ELSE segs[CHOOSE i \in 1..Len(segs) :
                 segs[i] # <<>> /\ \A k \in (i + 1)..Len(segs) : segs[k] = <<>>]

\* the last segment of p, trailing slashes apart
Basename(p) == LastNonEmpty(Split(p, "/"))

\* the extension of a segment: from its last dot on; empty when there is no
\* dot, when the segment starts with its last dot, and for '..'
ExtensionOf(base) ==
    IF (\A i \in 1..Len(base) : base[i] # ".") \/ base = S_dotDot THEN <<>>
    ELSE IF \A i \in 2..Len(base) : base[i] # "." THEN <<>>
    ELSE From(base, CHOOSE i \in 1..Len(base) :
                       base[i] = "." /\ \A k \in (i + 1)..Len(base) : base[k] # ".")

\* path.extname
extname(p) == ExtensionOf(Basename(p))

\* a normalized path without the root
Rootless(n) ==
    IF n = S_dot THEN <<>> ELSE IF StartsWith(n, "/") THEN Tail(n) ELSE n

\* the path below a directory that path.join(dir, p) names
Below(p) == Rootless(Normalize(p))

----------------------------------------------------------------------------
(* SSGGenerator (services/ssg-generator.ts): the build by pattern inversion.
   The repository holds the file in two versions, this one and the build by
   forward guess below. The source directory is the set of the relative
   paths of its files; the output directory is a set of [path, from]: the
   file at path is a copy of the source file from. *)

S_placeholder1 == <<"{", "1", "}">>

RECURSIVE RulesInOrder(_)
\* the rules of a sitemap in document order: pipeline by pipeline
RulesInOrder(pipelines) ==
    IF pipelines = <<>> THEN <<>>
    ELSE Head(pipelines).matches \o RulesInOrder(Tail(pipelines))

GeneratedRoute(pat, outputPath, sourceAsset) ==
    [pattern |-> pat, outputPath |-> outputPath, sourceAsset |-> sourceAsset]

\* entry.name.startsWith(".") for one of the segments
HiddenSegment(segs) == \E i \in 1..Len(segs) : StartsWith(segs[i], ".")

\* discoverAssets: the files of the walk, hidden entries skipped
discoverAssets(files) == {f \in files : ~HiddenSegment(Split(f, "/"))}

\* the expression of findMatchingFiles for a file pattern of letters,
\* digits, '-', '.' and '*': '*' is the group (.+), '.' is any character
FilePatternTerms(filePattern) ==
    [i \in 1..Len(filePattern) |->
        IF filePattern[i] = "*" THEN Term("plus", "", "one")
        ELSE IF filePattern[i] = "." THEN Term("dot", "", "one")
        ELSE Term("lit", filePattern[i], "one")]

\* the position of the first part with a '*'
FirstStar(parts) ==
    CHOOSE i \in 1..Len(parts) :
        Contains(parts[i], "*") /\ \A k \in 1..(i - 1) : ~Contains(parts[k], "*")

\* the entry of the segments segs is a file of the directory searchDir
\* whose name matches the expression regex
EntryMatches(segs, searchDir, regex) ==
    /\ SubSeq(segs, 1, Len(segs) - 1) = searchDir
    /\ MatchTerms(regex, segs[Len(segs)], 1).ok

\* the loop over the entries: dirParts and the name, joined with '/'
FilesOfDir(files, dirParts, searchDir, regex) ==
    { JoinWith(Append(dirParts, segs[Len(segs)]), "/") :
        segs \in { s \in {Split(f, "/") : f \in files} :
                     EntryMatches(s, searchDir, regex) } }

\* findMatchingFiles for the parts of the glob pattern, the first part with
\* a '*' being at position first
FilesOfParts(files, parts, first) ==
    FilesOfDir(files, SubSeq(parts, 1, first - 1),
               NormalizeSegments(SubSeq(parts, 1, first - 1), <<>>, FALSE),
               FilePatternTerms(parts[first]))

\* findMatchingFiles: the files of the directory before the first segment
\* with a '*' whose names match that segment; the segments after it are
\* not looked at (the glob pattern holds a '*')
findMatchingFiles(files, globPattern) ==
    FilesOfParts(files, Split(globPattern, "/"), FirstStar(Split(globPattern, "/")))

RECURSIVE WildcardTerms(_)
\* createWildcardRegex: every character literal, each {1} the group (.+)
WildcardTerms(srcPattern) ==
    IF srcPattern = <<>> THEN <<>>
    ELSE IF Len(srcPattern) >= 3 /\ SubSeq(srcPattern, 1, 3) = S_placeholder1
    THEN <<Term("plus", "", "one")>> \o WildcardTerms(From(srcPattern, 4))
    ELSE <<Term("lit", Head(srcPattern), "one")>> \o WildcardTerms(Tail(srcPattern))

createWildcardRegex(srcPattern) == WildcardTerms(srcPattern)

\* match && match[1]: the values a match gives the loop
ValueOfMatch(m) ==
    IF m.ok /\ Len(m.caps) >= 1 /\ m.caps[1] # <<>> THEN <<m.caps[1]>> ELSE <<>>

RECURSIVE ValuesOf(_, _)
\* the loop of discoverWildcardValues: match[1] of every file that matches
ValuesOf(matchingFiles, regex) ==
    IF matchingFiles = <<>> THEN <<>>
    ELSE ValueOfMatch(MatchTerms(regex, Head(matchingFiles), 1))
         \o ValuesOf(Tail(matchingFiles), regex)

\* discoverWildcardValues, for the files found in the order matchingFiles
discoverWildcardValues(srcPattern, matchingFiles) ==
    ValuesOf(matchingFiles, createWildcardRegex(srcPattern))

\* the glob pattern discoverWildcardValues hands to findMatchingFiles
GlobPattern(srcPattern) == ReplaceEvery(srcPattern, S_placeholder1, <<"*">>)

\* the last two returns of generateStaticOutputPath
StaticPathOf(cleanUrl) ==
    IF extname(cleanUrl) # <<>> THEN cleanUrl ELSE PathJoin(cleanUrl, S_indexHtml)

generateStaticOutputPath(urlPattern) ==
    IF urlPattern = <<>> \/ urlPattern = <<"/">> THEN S_indexHtml
    ELSE StaticPathOf(IF StartsWith(urlPattern, "/") THEN Tail(urlPattern)
                      ELSE urlPattern)

\* the path is that of a file below the directory dir
IsDirPrefix(dir, p) == Len(p) > Len(dir) + 1 /\ SubSeq(p, 1, Len(dir) + 1) = dir \o <<"/">>

\* mkdir and copyFile succeed: the source is a file, no directory on the
\* way to the destination is a file and the destination is no directory
CanCopyTo(src, dest, files, out) ==
    /\ src \in files
    /\ dest # <<>>
    /\ ~EndsWith(dest, <<"/">>)
    /\ \A w \in out : ~IsDirPrefix(w.path, dest) /\ ~IsDirPrefix(dest, w.path)

\* copyAssetToOutput succeeds
CanCopy(assetPath, outputPath, files, out) ==
    CanCopyTo(Below(assetPath), Below(outputPath), files, out)

\* the output directory with the file dest a copy of src
WithCopy(src, dest, out) ==
    {w \in out : w.path # dest} \cup {[path |-> dest, from |-> src]}

\* the output directory after copyAssetToOutput
copyAssetToOutput(assetPath, outputPath, out) ==
    WithCopy(Below(assetPath), Below(outputPath), out)

\* the route of generateRoutesForPattern for a route URL
RouteOfUrl(routeUrl, sourceAsset) ==
    GeneratedRoute(routeUrl, generateStaticOutputPath(routeUrl), sourceAsset)

\* the loop over the wildcard values
RoutesOfValues(urlPattern, srcPattern, wildcardValues) ==
    [i \in 1..Len(wildcardValues) |->
        RouteOfUrl(ReplaceFirst(urlPattern, <<"*">>, wildcardValues[i]),
                   ReplaceFirst(srcPattern, S_placeholder1, wildcardValues[i]))]

\* the routes generateRoutesForPattern is to copy and push, in order, for
\* the matching files in the order matchingFiles
PlannedRoutes(rule, matchingFiles) ==
    IF rule.action.type # "read" THEN <<>>
    ELSE IF ~Contains(rule.action.src, "{") /\ ~Contains(rule.action.src, "*")
    THEN <<RouteOfUrl(rule.pattern, rule.action.src)>>
    ELSE IF Includes(rule.action.src, S_placeholder1)
    THEN RoutesOfValues(rule.pattern, rule.action.src,
                        discoverWildcardValues(rule.action.src, matchingFiles))
    ELSE <<>>

RECURSIVE CopyRoutes(_, _, _)
\* the copies of generateRoutesForPattern one after the other: the output
\* directory after them, and whether one of them failed (Effect.orDie)
CopyRoutes(planned, files, out) ==
    IF planned = <<>> THEN [died |-> FALSE, out |-> out]
    ELSE IF ~CanCopy(planned[1].sourceAsset, planned[1].outputPath, files, out)
    THEN [died |-> TRUE, out |-> out]
    ELSE CopyRoutes(Tail(planned), files,
                    copyAssetToOutput(planned[1].sourceAsset, planned[1].outputPath, out))

\* the files a rule has findMatchingFiles look for
MatchingFilesOf(rule, files) ==
    IF rule.action.type = "read" /\ Includes(rule.action.src, S_placeholder1)
    THEN findMatchingFiles(files, GlobPattern(rule.action.src))
    ELSE {}

\* what generateRoutesForPattern leaves: its routes, unless a copy failed
RoutesCopied(planned, copied) ==
    [died |-> copied.died, out |-> copied.out,
     routes |-> IF copied.died THEN <<>> ELSE planned]

\* the routes planned, and the output directory after their copies
RoutesPlanned(planned, files, out) ==
    RoutesCopied(planned, CopyRoutes(planned, files, out))

\* generateRoutesForPattern(match, ...), for the matching files in the
\* order matchingFiles: its routes and the output directory after it
generateRoutesForPattern(rule, matchingFiles, files, out) ==
    RoutesPlanned(PlannedRoutes(rule, matchingFiles), files, out)

\* every order in which readdir may list the files of S
Orderings(S) ==
    {f \in [1..Cardinality(S) -> S] : \A i, j \in 1..Cardinality(S) : f[i] = f[j] => i = j}

----------------------------------------------------------------------------
(* SSGGenerator (services/ssg-generator.ts): the build by forward guess *)

\* assetPath.replace(/\.[^.]+$/, ""): the last dot and what follows it are
\* taken away, unless nothing follows it
WithoutExt(assetPath) ==
    IF \A i \in 1..(Len(assetPath) - 1) : assetPath[i] # "." THEN assetPath
    ELSE IF assetPath[Len(assetPath)] = "." THEN assetPath
    ELSE SubSeq(assetPath, 1,
                (CHOOSE i \in 1..Len(assetPath) :
                    assetPath[i] = "." /\ \A k \in (i + 1)..Len(assetPath) : assetPath[k] # ".")
                - 1)

\* the positions where path.dirname may cut: a '/' that is not the first
\* character and has a segment after it
DirnameEnds(p) ==
    {i \in 2..Len(p) : p[i] = "/" /\ \E k \in (i + 1)..Len(p) : p[k] # "/"}

\* the path cut at the last of these positions
DirnameAt(p, ends) ==
    IF ends = {} THEN (IF StartsWith(p, "/") THEN <<"/">> ELSE S_dot)
    ELSE IF StartsWith(p, "/") /\ ends = {2} THEN <<"/", "/">>
    ELSE SubSeq(p, 1, (CHOOSE i \in ends : \A k \in ends : k <= i) - 1)

\* path.dirname
dirname(p) == IF p = <<>> THEN S_dot ELSE DirnameAt(p, DirnameEnds(p))

RECURSIVE Dedup(_, _)
\* [...new Set(urls)]: the first occurrence of every element, in order
Dedup(urls, seen) ==
    IF urls = <<>> THEN <<>>
    ELSE IF Head(urls) \in seen THEN Dedup(Tail(urls), seen)
    ELSE <<Head(urls)>> \o Dedup(Tail(urls), seen \cup {Head(urls)})

\* the URLs pushed for the directory of an index.html
IndexUrls(dirPath) ==
    IF dirPath # S_dot THEN <<dirPath, dirPath \o <<"/">> >> ELSE << <<>>, <<"/">> >>

\* the URLs pushed for the asset path without its extension
CleanUrls(assetPath, withoutExt) ==
    (IF EndsWith(assetPath, S_indexHtml) THEN IndexUrls(dirname(assetPath))
     ELSE <<withoutExt, withoutExt \o <<"/">> >>)
    \o (IF Contains(assetPath, "/")
        THEN << <<"/">> \o withoutExt, <<"/">> \o withoutExt \o <<"/">> >>
        ELSE <<>>)

generatePotentialUrls(assetPath) ==
    Dedup(<<assetPath>> \o CleanUrls(assetPath, WithoutExt(assetPath)), {})

\* the last three returns of generateOutputPath
OutputPathOf(cleanUrl) ==
    IF EndsWith(cleanUrl, <<"/">>) THEN PathJoin(cleanUrl, S_indexHtml)
    ELSE IF extname(cleanUrl) # <<>> THEN cleanUrl
    ELSE PathJoin(cleanUrl, S_indexHtml)

generateOutputPath(url) ==
    IF url = <<>> \/ url = <<"/">> THEN S_indexHtml
    ELSE OutputPathOf(IF StartsWith(url, "/") THEN Tail(url) ELSE url)

\* routeMatch.matched && routeMatch.assetPath === assetPath
LeadsTo(called, assetPath) ==
    called.value.matched /\ called.value.assetPath = assetPath

RECURSIVE RoutesForUrls(_, _, _, _, _, _), RouteForUrl(_, _, _, _, _, _, _, _)
\* the loop of generateRoutesForAsset over the potential URLs
RoutesForUrls(potentialUrls, assetPath, sm, files, out, routes) ==
    IF potentialUrls = <<>> THEN [died |-> FALSE, out |-> out, routes |-> routes]
    ELSE RouteForUrl(matchRequest(Head(potentialUrls), sm),
                     generateOutputPath(Head(potentialUrls)),
                     potentialUrls, assetPath, sm, files, out, routes)

\* one turn of the loop: a URL the router resolves to the asset is copied
\* and pushed; matchRequest throwing and a copy failing end the build
RouteForUrl(called, outputPath, potentialUrls, assetPath, sm, files, out, routes) ==
    IF called.outcome = "throw"
    THEN [died |-> TRUE, out |-> out, routes |-> <<>>]
    ELSE IF ~LeadsTo(called, assetPath)
    THEN RoutesForUrls(Tail(potentialUrls), assetPath, sm, files, out, routes)
    ELSE IF ~CanCopy(assetPath, outputPath, files, out)
    THEN [died |-> TRUE, out |-> out, routes |-> <<>>]
    ELSE RoutesForUrls(Tail(potentialUrls), assetPath, sm, files,
                       copyAssetToOutput(assetPath, outputPath, out),
                       Append(routes, GeneratedRoute(Head(potentialUrls), outputPath,
                                                     assetPath)))

\* generateRoutesForAsset(assetPath, sitemap, ...): its routes and the
\* output directory after it
generateRoutesForAsset(assetPath, sm, files, out) ==
    RoutesForUrls(generatePotentialUrls(assetPath), assetPath, sm, files, out, <<>>)

\* the sitemap of the build: the default one when there is no document and
\* when SitemapParser.parse fails
SitemapParsed(parsed) ==
    IF parsed.either = "Left" THEN generateDefaultSitemap ELSE parsed.right

SitemapOfContent(maybeSitemapContent) ==
    IF ~maybeSitemapContent.defined THEN generateDefaultSitemap
    ELSE SitemapParsed(parse(maybeSitemapContent.value))

----------------------------------------------------------------------------
(* Inputs of the checks *)

MaxPathLen == 3
MaxPatternLen == 3

\* a letter, the separator, the extension dot, ? and a line terminator
PathChars == {"a", "/", ".", "?", "\n"}
\* a letter, the separator, an escaped character, the wildcard star and ?
PatternChars == {"a", "/", ".", "*", "?"}

S_about == <<"a", "b", "o", "u", "t">>
S_folder == <<"f", "o", "l", "d", "e", "r">>
S_subfolder == <<"s", "u", "b">> \o S_folder
S_html == <<".", "h", "t", "m", "l">>
S_aboutHtml == S_about \o S_html
S_index == <<"i", "n", "d", "e", "x">>
S_abc == <<"a", "/", "b", "/", "c">>

S_apiV1UsersJson == <<"a", "p", "i", "/", "v", "1", "/", "u", "s", "e", "r", "s", ".", "j", "s", "o", "n">>
S_apiStarStarJson == <<"a", "p", "i", "/", "*", "/", "*", ".", "j", "s", "o", "n">>

ExamplePaths ==
    { S_apiV1UsersJson,
      S_about, S_folder \o <<"/">> \o S_about,
      S_folder \o <<"/">> \o S_subfolder \o <<"/">>,
      S_folder \o <<"/">> \o S_subfolder \o <<"/">> \o S_about,
      S_abc, S_indexHtml, S_about \o S_html }

ExamplePatterns ==
    { S_apiStarStarJson,
      S_indexHtml, <<"*", "*", "/">> \o S_about, <<"*">> \o S_html }

MatcherPaths == SeqsUpTo(PathChars, MaxPathLen) \cup ExamplePaths
MatcherPatterns == SeqsUpTo(PatternChars, MaxPatternLen) \cup ExamplePatterns

----------------------------------------------------------------------------
(* Values of the variables a specification does not use *)

IdleMatcher ==
    /\ path = <<>>
    /\ pattern = <<>>
    /\ matchResult = None

IdleRouter ==
    /\ pathname = <<>>
    /\ sitemap = generateDefaultSitemap
    /\ routeMatch = Return(Unmatched)

IdleHandler ==
    /\ assetStore = [state |-> "absent", content |-> <<>>]
    /\ maybeSitemapXml = [some |-> FALSE, xml |-> <<>>]
    /\ sitemapValidation = Nothing
    /\ result = Return(Unmatched)

IdleSubstitute ==
    /\ templateIn = <<>>
    /\ capturesIn = <<>>
    /\ substituted = <<>>

IdleParser ==
    /\ xmlDocument = [wellFormed |-> FALSE, tree |-> Undef]
    /\ rawParsed = [pipelines |-> <<>>]
    /\ parseResult = Left(SitemapXmlParseError("<XMLParser error>"))

IdleBuild ==
    /\ buildVersion = "inversion"
    /\ pendingAssets = {}
    /\ sourceFiles = {}
    /\ unreadableFiles = {}
    /\ sitemapInSource = Nothing
    /\ sitemapInRoot = Nothing
    /\ buildSitemap = generateDefaultSitemap
    /\ pendingRules = <<>>
    /\ allAssets = {}
    /\ generatedRoutes = <<>>
    /\ processedAssets = {}
    /\ copiedDirectly = 0
    /\ outputFiles = {}
    /\ buildResult = [success |-> FALSE, generatedFiles |-> 0, routes |-> <<>>]

IdleOutputPath ==
    /\ urlIn = <<>>
    /\ generatedPath = Nothing
    /\ staticPath = Nothing

IdleCalls ==
    /\ sharedSitemap = generateDefaultSitemap
    /\ calls = <<>>

matcherVars == <<path, pattern, matchResult>>
routerVars == <<pathname, sitemap, routeMatch>>
handlerVars == <<assetStore, maybeSitemapXml, sitemapValidation, result>>
substituteVars == <<templateIn, capturesIn, substituted>>
parserVars == <<xmlDocument, rawParsed, parseResult>>
buildVars == <<buildVersion, sourceFiles, unreadableFiles, sitemapInSource, sitemapInRoot,
               buildSitemap, pendingRules, pendingAssets, allAssets, generatedRoutes, processedAssets,
               copiedDirectly, outputFiles, buildResult>>
outputPathVars == <<urlIn, generatedPath, staticPath>>
callsVars == <<sharedSitemap, calls>>

\* the variables, and their values, outside each specification
outsideMatcher == <<routerVars, handlerVars, substituteVars, parserVars, buildVars, outputPathVars, callsVars>>
outsideRouter == <<matcherVars, handlerVars, substituteVars, parserVars, buildVars, outputPathVars, callsVars>>
outsideHandler == <<matcherVars, substituteVars, parserVars, buildVars, outputPathVars, callsVars>>
outsideSubstitute == <<matcherVars, routerVars, handlerVars, parserVars, buildVars, outputPathVars, callsVars>>
outsideParser == <<matcherVars, routerVars, handlerVars, substituteVars, buildVars, outputPathVars, callsVars>>
outsideBuild == <<matcherVars, routerVars, handlerVars, substituteVars, parserVars, outputPathVars, callsVars>>
outsideOutputPath ==
    <<matcherVars, routerVars, handlerVars, substituteVars, parserVars, buildVars, callsVars>>
outsideCalls ==
    <<matcherVars, routerVars, handlerVars, substituteVars, parserVars, buildVars,
      outputPathVars>>

IdleOutsideMatcher == IdleRouter /\ IdleHandler /\ IdleSubstitute /\ IdleParser /\ IdleBuild /\ IdleOutputPath /\ IdleCalls
IdleOutsideRouter == IdleMatcher /\ IdleHandler /\ IdleSubstitute /\ IdleParser /\ IdleBuild /\ IdleOutputPath /\ IdleCalls
IdleOutsideHandler == IdleMatcher /\ IdleSubstitute /\ IdleParser /\ IdleBuild /\ IdleOutputPath /\ IdleCalls
IdleOutsideSubstitute == IdleMatcher /\ IdleRouter /\ IdleHandler /\ IdleParser /\ IdleBuild /\ IdleOutputPath /\ IdleCalls
IdleOutsideParser == IdleMatcher /\ IdleRouter /\ IdleHandler /\ IdleSubstitute /\ IdleBuild /\ IdleOutputPath /\ IdleCalls
IdleOutsideBuild ==
    IdleMatcher /\ IdleRouter /\ IdleHandler /\ IdleSubstitute /\ IdleParser
    /\ IdleOutputPath /\ IdleCalls
IdleOutsideOutputPath ==
    IdleMatcher /\ IdleRouter /\ IdleHandler /\ IdleSubstitute /\ IdleParser
    /\ IdleBuild /\ IdleCalls
IdleOutsideCalls ==
    IdleMatcher /\ IdleRouter /\ IdleHandler /\ IdleSubstitute /\ IdleParser
    /\ IdleBuild /\ IdleOutputPath

----------------------------------------------------------------------------
(* SpecMatcher: one call PatternMatcher.match(path, pattern) *)

InitMatcher ==
    /\ pc = "match"
    /\ path \in MatcherPaths
    /\ pattern \in MatcherPatterns
    /\ matchResult = None
    /\ IdleOutsideMatcher

Match ==
    /\ pc = "match"
    /\ matchResult' = match(path, pattern)
    /\ pc' = "matched"
    /\ UNCHANGED <<path, pattern, outsideMatcher>>

NextMatcher == Match

SpecMatcher == InitMatcher /\ [][NextMatcher]_vars

----------------------------------------------------------------------------
(* SpecSubstitute: one call PatternMatcher.substitute(template, path,
   substitutions), with any template over the characters of a placeholder
   and any list of captured strings *)

MaxTemplateLen == 4
MaxCaptures == 2

\* the braces, three digits and a letter
TemplateChars == {"{", "}", "0", "1", "9", "a"}

S_template1and99 == <<"{", "1", "}", "/", "{", "9", "9", "}">>
S_folderCaptures == <<S_folder \o <<"/">> \o S_about, S_folder>>

ExampleTemplates ==
    { S_template1and99, <<"{", "1", "}", ".", "h", "t", "m", "l">>,
      <<"{", "0", "1", "}", "{", "1", "}">>, <<"{", "{", "0", "}", "}">> }

\* captured strings: empty, a letter, and the text of a placeholder
CaptureValues == {<<>>, <<"a">>, <<"{", "0", "}">>}

SubstituteTemplates == SeqsUpTo(TemplateChars, MaxTemplateLen) \cup ExampleTemplates
SubstituteCaptures == SeqsUpTo(CaptureValues, MaxCaptures) \cup {S_folderCaptures}

InitSubstitute ==
    /\ pc = "substitute"
    /\ templateIn \in SubstituteTemplates
    /\ capturesIn \in SubstituteCaptures
    /\ substituted = <<>>
    /\ IdleOutsideSubstitute

Substitute ==
    /\ pc = "substitute"
    /\ substituted' = substitute(templateIn, path, capturesIn)
    /\ pc' = "substituted"
    /\ UNCHANGED <<templateIn, capturesIn, outsideSubstitute>>

NextSubstitute == Substitute

SpecSubstitute == InitSubstitute /\ [][NextSubstitute]_vars

----------------------------------------------------------------------------
(* SpecRouter: one call SitemapRouter.matchRequest(pathname, sitemap), with
   the default sitemap or with a custom sitemap of one or two pipelines *)

MaxRules == 3

S_special == <<"s", "p", "e", "c", "i", "a", "l">>
S_specialFile == <<"s", "p", "e", "c", "i", "a", "l", "-", "f", "i", "l", "e", ".", "h", "t", "m", "l">>
S_1html == <<"{", "1", "}", ".", "h", "t", "m", "l">>

S_apiPattern == <<"a", "p", "i", "/", "*", "*">>
S_dataSrc == <<"d", "a", "t", "a", "/", "{", "1", "}", ".", "j", "s", "o", "n">>
S_apiUsers == <<"a", "p", "i", "/", "u", "s", "e", "r", "s">>
S_dataUsersJson == <<"d", "a", "t", "a", "/", "u", "s", "e", "r", "s", ".", "j", "s", "o", "n">>

CustomRules ==
    { Rule(S_special, ReadRange(S_specialFile, FALSE)),
      Rule(<<"*", "*">>, ReadRange(S_1html, FALSE)),
      Rule(<<"*">>, Generate(<<"g">>)),
      Rule(<<"a", "/", "*">>, Transform(<<"t", "/", "{", "1", "}">>, <<"t">>)),
      Rule(<<"a", "?">>, ReadRange(<<"q">>, TRUE)),
      Rule(<<"?">>, ReadRange(<<"{", "0", "}">>, FALSE)) }

\* the rules rs as two pipelines, the first k rules in the first
TwoPipelines(rs, k) ==
    [pipelines |-> << [matches |-> SubSeq(rs, 1, k)],
                      [matches |-> SubSeq(rs, k + 1, Len(rs))] >>]

\* the sitemap of the one rule 'api/**' -> read 'data/{1}.json'
ApiSitemap ==
    [pipelines |-> <<[matches |-> <<Rule(S_apiPattern, ReadRange(S_dataSrc, FALSE))>>]>>]

\* sitemaps of one rule whose pattern starts with '/'
LeadingSlashSitemaps ==
    {[pipelines |-> <<[matches |-> <<Rule(pat, ReadRange(S_specialFile, FALSE))>>]>>] :
        pat \in {<<"/", "a">>, <<"/", "?", "a">>, <<"/", "*">>}}

CustomSitemaps ==
    {[pipelines |-> <<>>], ApiSitemap}
    \cup LeadingSlashSitemaps
    \cup {[pipelines |-> <<[matches |-> rs]>>] : rs \in SeqsUpTo(CustomRules, MaxRules)}
    \cup UNION {{TwoPipelines(rs, k) : k \in 0..Len(rs)} :
                   rs \in SeqsUpTo(CustomRules, MaxRules)}

CustomPaths ==
    SeqsUpTo({"a", "/"}, MaxPathLen)
    \cup {S_special, <<"/">> \o S_special, S_about, S_apiUsers, <<"/">> \o S_apiUsers}

S_css == <<".", "c", "s", "s">>

PathSuffixes ==
    {<<>>, S_css, S_html, <<"m", "p", "4">>, <<".", "m", "p">>, <<".", "m", "p", "4", "/">>}
    \cup {<<".">> \o e : e \in VideoExtensions}

DefaultPaths ==
    {pre \o suf : pre \in SeqsUpTo(PathChars, MaxPathLen), suf \in PathSuffixes}
    \cup {S_about, S_about \o <<"/">>, <<"s", "t", "y", "l", "e", "s", ".", "c", "s", "s">>, <<"m", "o", "v", "i", "e", ".", "m", "p", "4">>,
          <<"d", "o", "c", "s", "/", "g", "e", "t", "t", "i", "n", "g", "-", "s", "t", "a", "r", "t", "e", "d">>}

InitRouter ==
    /\ pc = "route"
    /\ \/ sitemap = generateDefaultSitemap /\ pathname \in DefaultPaths
       \/ sitemap \in CustomSitemaps /\ pathname \in CustomPaths
    /\ routeMatch = Return(Unmatched)
    /\ IdleOutsideRouter

MatchRequest ==
    /\ pc = "route"
    /\ routeMatch' = matchRequest(pathname, sitemap)
    /\ pc' = "routed"
    /\ UNCHANGED <<pathname, sitemap, outsideRouter>>

NextRouter == MatchRequest

SpecRouter == InitRouter /\ [][NextRouter]_vars

----------------------------------------------------------------------------
(* Spec: the asset store and the calls of ButterflyHandler.process, one
   after the other, each in the steps of its generator *)

\* a match element with one action child
MatchElement(pat, child, attributes) ==
    Obj("@_pattern" :> Str(pat) @@ child :> Obj(attributes))

S_namespace == <<"n", "s">>

\* a document with the root and the pipelines container around pipelineValue
SitemapDocument(pipelineValue) ==
    [wellFormed |-> TRUE,
     tree |-> Obj("map:sitemap" :>
                Obj("@_xmlns:map" :> Str(S_namespace)
                    @@ "map:pipelines" :> Obj("map:pipeline" :> pipelineValue)))]

OnePipeline(matchValue) == Obj("map:match" :> matchValue)

S_test == <<"t", "e", "s", "t">>
S_testHtml == <<"t", "e", "s", "t", ".", "h", "t", "m", "l">>

\* markup the XML parser rejects
MalformedXml == [wellFormed |-> FALSE, tree |-> Undef]
\* a document whose root is another element
WrongRootXml ==
    [wellFormed |-> TRUE,
     tree |-> Obj("wrong:root" :> Obj("@_xmlns:wrong" :> Str(S_namespace)))]
\* the root without the pipelines container
MissingPipelinesXml ==
    [wellFormed |-> TRUE,
     tree |-> Obj("map:sitemap" :> Obj("@_xmlns:map" :> Str(S_namespace)))]
\* a read action with an empty src
InvalidSchemaXml ==
    SitemapDocument(OnePipeline(
        MatchElement(S_test, "map:read", "@_src" :> Str(<<>>))))
\* a generate action without generator
MissingGeneratorXml ==
    SitemapDocument(OnePipeline(
        MatchElement(S_test, "map:generate", "@_x" :> Str(S_test))))
ValidSitemapXml ==
    SitemapDocument(OnePipeline(
        MatchElement(S_test, "map:read", "@_src" :> Str(S_testHtml))))
CustomSitemapXml ==
    SitemapDocument(OnePipeline(
        MatchElement(S_apiPattern, "map:read", "@_src" :> Str(S_dataSrc))))
MultiPipelineXml ==
    SitemapDocument(Arr(<<
        OnePipeline(MatchElement(S_special, "map:read",
                                 "@_src" :> Str(S_specialFile))),
        OnePipeline(MatchElement(<<"*", "*">>, "map:read",
                                 "@_src" :> Str(S_1html)
                                 @@ "@_rangeSupport" :> Str(S_true)))>>))
MixedActionsXml ==
    SitemapDocument(OnePipeline(Arr(<<
        MatchElement(<<"a", "/", "*">>, "map:generate", "@_generator" :> Str(<<"g">>)),
        MatchElement(<<"*">>, "map:transform",
                     "@_src" :> Str(<<"t", "/", "{", "1", "}">>) @@ "@_transformer" :> Str(<<"t">>)),
        Obj("@_pattern" :> Str(S_about))>>)))
\* a valid sitemap whose second pattern does not compile
QuestionMarkXml ==
    SitemapDocument(OnePipeline(Arr(<<
        MatchElement(S_test, "map:read", "@_src" :> Str(S_testHtml)),
        MatchElement(<<"?">>, "map:read", "@_src" :> Str(<<"{", "0", "}">>))>>)))

Documents ==
    { MalformedXml, WrongRootXml, MissingPipelinesXml, InvalidSchemaXml,
      MissingGeneratorXml, ValidSitemapXml, CustomSitemapXml, MultiPipelineXml,
      MixedActionsXml, QuestionMarkXml }

LoadErrors == {"AssetLoadError", "AssetStreamError"}

StoreStates ==
    {[state |-> "absent", content |-> <<>>]}
    \cup {[state |-> e, content |-> <<>>] : e \in LoadErrors}
    \cup {[state |-> "present", content |-> d] : d \in Documents}

S_slashAbout == <<"/">> \o S_about

RequestPaths ==
    { <<>>, <<"/">>, S_slashAbout, S_slashAbout \o <<"/">>, <<"/", "t", "e", "s", "t">>, <<"/", "a", "p", "i", "/", "u", "s", "e", "r", "s">>,
      <<"/">> \o S_special, <<"/", "a", "/", "b">>, <<"/", "m", "o", "v", "i", "e", ".", "m", "p", "4">>, <<"/", "s", "t", "y", "l", "e", "s", ".", "c", "s", "s">>,
      <<"/", "u", "n", "m", "a", "t", "c", "h", "e", "d", "-", "r", "o", "u", "t", "e">>, <<"/", "a">> \o <<"\n">> }

Init ==
    /\ pc = "idle"
    /\ assetStore \in StoreStates
    /\ maybeSitemapXml = [some |-> FALSE, xml |-> <<>>]
    /\ sitemapValidation = Nothing
    /\ result = Return(Unmatched)
    /\ IdleRouter
    /\ IdleOutsideHandler

\* the asset store changes: the document is written, replaced or removed,
\* or the store starts or stops failing
StoreChange ==
    /\ assetStore' \in StoreStates \ {assetStore}
    /\ UNCHANGED <<pc, outsideHandler, routerVars, maybeSitemapXml,
                   sitemapValidation, result>>

\* mutant: a call that follows a call that returned routes with the sitemap
\* of that call
ProcessWithSitemapOfLastCall ==
    /\ pc \in {"idle", "done", "failed"}
    /\ pathname' \in RequestPaths
    /\ routeMatch' = Return(Unmatched)
    /\ result' = Return(Unmatched)
    /\ IF pc = "done"
       THEN pc' = "route" /\ UNCHANGED <<sitemap, maybeSitemapXml, sitemapValidation>>
       ELSE /\ pc' = "load"
            /\ sitemap' = generateDefaultSitemap
            /\ maybeSitemapXml' = [some |-> FALSE, xml |-> <<>>]
            /\ sitemapValidation' = Nothing
    /\ UNCHANGED <<assetStore, outsideHandler>>

\* process(pathname) is called
Process ==
    /\ pc \in {"idle", "done", "failed"}
    /\ pathname' \in RequestPaths
    /\ pc' = "load"
    /\ sitemap' = generateDefaultSitemap
    /\ routeMatch' = Return(Unmatched)
    /\ maybeSitemapXml' = [some |-> FALSE, xml |-> <<>>]
    /\ sitemapValidation' = Nothing
    /\ result' = Return(Unmatched)
    /\ UNCHANGED <<assetStore, outsideHandler>>

\* yield* assetLoader.loadAsset(".moneta/sitemap.xml").pipe(...)
LoadAsset ==
    /\ pc = "load"
    /\ LET loaded == LoadSitemapXml(assetStore) IN
       IF loaded.outcome = "throw"
       THEN /\ pc' = "failed"
            /\ result' = loaded
            /\ UNCHANGED maybeSitemapXml
       ELSE /\ pc' = "parse"
            /\ maybeSitemapXml' = loaded.value
            /\ UNCHANGED result
    /\ UNCHANGED <<assetStore, outsideHandler, routerVars, sitemapValidation>>

\* const sitemapResult = yield* Option.match(maybeSitemapXml, ...)
ResolveSitemap ==
    /\ pc = "parse"
    /\ LET sitemapResult == SitemapResult(maybeSitemapXml) IN
       /\ sitemap' = sitemapResult.sitemap
       /\ sitemapValidation' = sitemapResult.validation
    /\ pc' = "route"
    /\ UNCHANGED <<assetStore, outsideHandler, pathname, routeMatch,
                   maybeSitemapXml, result>>

\* yield* SitemapRouter.matchRequest(pathname, sitemap) and the return
Route ==
    /\ pc = "route"
    /\ LET rm == matchRequest(pathname, sitemap) IN
       /\ routeMatch' = rm
       /\ IF rm.outcome = "throw"
          THEN pc' = "failed" /\ result' = rm
          ELSE pc' = "done"
               /\ result' = Return(HandlerResult(rm.value, sitemapValidation))
    /\ UNCHANGED <<assetStore, outsideHandler, pathname, sitemap,
                   maybeSitemapXml, sitemapValidation>>

Next == StoreChange \/ Process \/ LoadAsset \/ ResolveSitemap \/ Route

Spec == Init /\ [][Next]_vars

----------------------------------------------------------------------------
(* SpecInTurn: process calls one after the other; the asset store changes
   between two calls and not during one *)

StoreChangeBetweenCalls ==
    /\ pc \in {"idle", "done", "failed"}
    /\ StoreChange

NextInTurn == StoreChangeBetweenCalls \/ Process \/ LoadAsset \/ ResolveSitemap \/ Route

SpecInTurn == Init /\ [][NextInTurn]_vars

----------------------------------------------------------------------------
(* SpecParser: one call SitemapParser.parse(xmlContent), in its two steps,
   with every document made of the elements below *)

MaxSiblings == 2

\* an element as the XML parser gives it: "" when it has neither attribute
\* nor child, else the object of the attributes and children it has; a field
\* given as undefined is an attribute or child the element does not have
Element(fields) ==
    LET present == {k \in DOMAIN fields : fields[k].t # "undefined"} IN
    IF present = {} THEN Str(<<>>) ELSE Obj([k \in present |-> fields[k]])

\* an attribute that is not there, that is empty, or that has the value v
AttributeValues(v) == {Undef, Str(<<>>), Str(v)}

S_false == <<"f", "a", "l", "s", "e">>
S_TRUE == <<"T", "R", "U", "E">>

ReadElements ==
    {Element("@_src" :> src @@ "@_rangeSupport" :> rangeSupport) :
        src \in AttributeValues(S_testHtml),
        rangeSupport \in {Undef, Str(S_true), Str(S_false), Str(S_TRUE)}}

GenerateElements ==
    {Element("@_generator" :> generator) : generator \in AttributeValues(<<"g">>)}

TransformElements ==
    {Element("@_src" :> src @@ "@_transformer" :> transformer) :
        src \in AttributeValues(S_testHtml),
        transformer \in AttributeValues(<<"t">>)}

PatternValues == AttributeValues(S_test)

MatchElements ==
    {Element("@_pattern" :> pat) : pat \in PatternValues}
    \cup {Element("@_pattern" :> pat @@ "map:read" :> e) :
              pat \in PatternValues, e \in ReadElements}
    \cup {Element("@_pattern" :> pat @@ "map:generate" :> e) :
              pat \in PatternValues, e \in GenerateElements}
    \cup {Element("@_pattern" :> pat @@ "map:transform" :> e) :
              pat \in PatternValues, e \in TransformElements}

\* the match elements that occur among several siblings: one without
\* attribute or child, one with a pattern alone, a read with a src, a read
\* with an empty src, and a read without attribute
SiblingMatchElements ==
    { Element("@_pattern" :> Undef),
      Element("@_pattern" :> Str(S_test)),
      Element("@_pattern" :> Str(S_test)
              @@ "map:read" :> Element("@_src" :> Str(S_testHtml)
                                       @@ "@_rangeSupport" :> Str(S_true))),
      Element("@_pattern" :> Str(S_test) @@ "map:read" :> Element("@_src" :> Str(<<>>))),
      Element("@_pattern" :> Str(S_test) @@ "map:read" :> Element("@_src" :> Undef)) }

\* the sequences of 2..n siblings over S: a repeated element is an array
Siblings(S, n) == UNION {[1..k -> S] : k \in 2..n}

PipelineElements ==
    {Element("map:match" :> m) :
        m \in {Undef} \cup MatchElements
               \cup {Arr(ms) : ms \in Siblings(SiblingMatchElements, MaxSiblings)}}

SiblingPipelineElements ==
    { Element("map:match" :> Undef),
      Element("map:match" :> Element("@_pattern" :> Str(S_test))),
      Element("map:match" :> Element("@_pattern" :> Str(S_test)
                                     @@ "map:generate" :> Element("@_generator" :> Undef))) }

PipelinesElements ==
    {Element("map:pipeline" :> ps @@ "@_id" :> Undef) :
        ps \in {Undef} \cup PipelineElements
                \cup {Arr(pp) : pp \in Siblings(SiblingPipelineElements, MaxSiblings)}}
    \cup {Element("map:pipeline" :> Undef @@ "@_id" :> Str(<<"p">>))}

RootElements ==
    {Element("@_xmlns:map" :> ns @@ "map:pipelines" :> ps) :
        ns \in {Undef, Str(S_namespace)},
        ps \in {Undef} \cup PipelinesElements}

\* text without markup: a tree without elements
PlainTextXml == [wellFormed |-> TRUE, tree |-> Obj("#text" :> Str(S_test))]
\* the document of ValidSitemapXml written without the prefix map:
UnprefixedXml ==
    [wellFormed |-> TRUE,
     tree |-> Obj("sitemap" :> Obj("pipelines" :> Obj("pipeline" :>
                Obj("match" :> Obj("@_pattern" :> Str(S_test)
                                   @@ "read" :> Obj("@_src" :> Str(S_testHtml)))))))]

ParserDocuments ==
    {[wellFormed |-> TRUE, tree |-> Obj("map:sitemap" :> root)] : root \in RootElements}
    \cup {MalformedXml, WrongRootXml, PlainTextXml, UnprefixedXml}

InitParser ==
    /\ pc = "xml"
    /\ xmlDocument \in ParserDocuments
    /\ rawParsed = [pipelines |-> <<>>]
    /\ parseResult = Left(SitemapXmlParseError("<XMLParser error>"))
    /\ IdleOutsideParser

\* const rawSitemap = yield* Effect.try(...)
ParseXml ==
    /\ pc = "xml"
    /\ LET tried == TryParseXml(xmlDocument) IN
       IF tried.either = "Left"
       THEN pc' = "rejected" /\ parseResult' = tried /\ UNCHANGED rawParsed
       ELSE pc' = "schema" /\ rawParsed' = tried.right /\ UNCHANGED parseResult
    /\ UNCHANGED <<xmlDocument, outsideParser>>

\* const validatedSitemap = yield* Schema.decodeUnknown(...) and the return
Validate ==
    /\ pc = "schema"
    /\ parseResult' = DecodeUnknown(rawParsed)
    /\ pc' = IF parseResult'.either = "Left" THEN "rejected" ELSE "parsed"
    /\ UNCHANGED <<xmlDocument, rawParsed, outsideParser>>

NextParser == ParseXml \/ Validate

SpecParser == InitParser /\ [][NextParser]_vars

----------------------------------------------------------------------------
(* SpecBuild: one run of SSGGenerator.build, in either version of the file,
   over a source directory, in the steps of its generator. readdir lists a
   directory in no order the code fixes: the files a rule matches and the
   assets of the walk are taken in any order. *)

MaxFiles == 2
MaxUnreadable == 1

S_dataAJson == <<"d", "a", "t", "a", "/", "a", ".", "j", "s", "o", "n">>
S_dataBJson == <<"d", "a", "t", "a", "/", "b", ".", "j", "s", "o", "n">>
S_dataCTxt == <<"d", "a", "t", "a", "/", "c", ".", "t", "x", "t">>
S_dataSubDJson == <<"d", "a", "t", "a", "/", "s", "/", "d", ".", "j", "s", "o", "n">>
S_hidden == <<".", "h">>
S_aboutIndexHtml == S_about \o <<"/">> \o S_indexHtml

\* the files a source directory may hold
BuildFiles ==
    {S_indexHtml, S_aboutHtml, S_aboutIndexHtml, S_testHtml, S_dataAJson, S_dataBJson,
     S_dataCTxt, S_dataSubDJson, S_hidden}

\* what a build reads and never writes
buildInputs ==
    <<buildVersion, sourceFiles, unreadableFiles, sitemapInSource, sitemapInRoot>>

\* the source directories of the check
Inventories == {fs \in SUBSET BuildFiles : Cardinality(fs) <= MaxFiles}

\* the files of a source directory that cannot be read (permissions)
Unreadable(files) == {fs \in SUBSET files : Cardinality(fs) <= MaxUnreadable}

\* the files copyFile can read
ReadableFiles == sourceFiles \ unreadableFiles

\* .moneta/sitemap.xml below the source directory, and below the working
\* directory
\* the rule 'api/*' -> read 'data/{1}.json'
SingleStarXml ==
    SitemapDocument(OnePipeline(
        MatchElement(<<"a", "p", "i", "/", "*">>, "map:read", "@_src" :> Str(S_dataSrc))))

SourceSitemaps ==
    {Nothing} \cup {Just(d) : d \in {CustomSitemapXml, ValidSitemapXml, MalformedXml,
                                     MixedActionsXml, SingleStarXml}}
RootSitemaps == {Nothing, Just(ValidSitemapXml)}

InitBuild ==
    /\ pc = "build"
    /\ buildVersion \in {"forward", "inversion"}
    /\ sourceFiles \in Inventories
    /\ unreadableFiles \in Unreadable(sourceFiles)
    /\ sitemapInSource \in SourceSitemaps
    /\ sitemapInRoot \in RootSitemaps
    /\ buildSitemap = generateDefaultSitemap
    /\ pendingRules = <<>>
    /\ pendingAssets = {}
    /\ allAssets = {}
    /\ generatedRoutes = <<>>
    /\ processedAssets = {}
    /\ copiedDirectly = 0
    /\ outputFiles = {}
    /\ buildResult = [success |-> FALSE, generatedFiles |-> 0, routes |-> <<>>]
    /\ IdleOutsideBuild

\* the two readFile of .moneta/sitemap.xml, then SitemapParser.parse or
\* the default sitemap
LoadSitemap ==
    /\ pc = "build"
    /\ buildSitemap' = SitemapOfContent(IF sitemapInSource.defined
                                        THEN sitemapInSource ELSE sitemapInRoot)
    /\ pc' = "discover"
    /\ UNCHANGED <<buildInputs, pendingRules, pendingAssets, allAssets,
                   generatedRoutes, processedAssets, copiedDirectly, outputFiles,
                   buildResult, outsideBuild>>

\* const allAssets = yield* discoverAssets(sourceDir), and the loop that
\* follows it: over the matches of the sitemap, or over allAssets
DiscoverAssets ==
    /\ pc = "discover"
    /\ allAssets' = discoverAssets(sourceFiles)
    /\ pendingRules' = IF buildVersion = "inversion"
                       THEN RulesInOrder(buildSitemap.pipelines) ELSE <<>>
    /\ pendingAssets' = IF buildVersion = "forward" THEN allAssets' ELSE {}
    /\ pc' = "routes"
    /\ UNCHANGED <<buildInputs, buildSitemap, generatedRoutes, processedAssets,
                   copiedDirectly, outputFiles, buildResult, outsideBuild>>

\* one turn of the loops over the pipelines and their matches:
\* yield* generateRoutesForPattern(match, ...) and what follows it
GenerateRoutes ==
    /\ pc = "routes"
    /\ pendingRules # <<>>
    /\ \E matchingFiles \in Orderings(MatchingFilesOf(Head(pendingRules), sourceFiles)) :
       \E generated \in {generateRoutesForPattern(Head(pendingRules), matchingFiles,
                                                  ReadableFiles, outputFiles)} :
             /\ outputFiles' = generated.out
             /\ IF generated.died
                THEN pc' = "died" /\ UNCHANGED <<pendingRules, generatedRoutes, processedAssets>>
                ELSE /\ pc' = "routes"
                     /\ pendingRules' = Tail(pendingRules)
                     /\ generatedRoutes' = generatedRoutes \o generated.routes
                     /\ processedAssets' = processedAssets
                            \cup {generated.routes[i].sourceAsset : i \in 1..Len(generated.routes)}
    /\ UNCHANGED <<buildInputs, buildSitemap, pendingAssets, allAssets,
                   copiedDirectly, buildResult, outsideBuild>>

\* one turn of the loop of the forward guess over allAssets:
\* yield* generateRoutesForAsset(asset, sitemap, ...) and what follows it
GenerateRoutesForAsset ==
    /\ pc = "routes"
    /\ \E asset \in pendingAssets :
       \E generated \in {generateRoutesForAsset(asset, buildSitemap, ReadableFiles,
                                                outputFiles)} :
             /\ outputFiles' = generated.out
             /\ IF generated.died
                THEN pc' = "died" /\ UNCHANGED <<pendingAssets, generatedRoutes, processedAssets>>
                ELSE /\ pc' = "routes"
                     /\ pendingAssets' = pendingAssets \ {asset}
                     /\ generatedRoutes' = generatedRoutes \o generated.routes
                     /\ processedAssets' = processedAssets
                            \cup {generated.routes[i].sourceAsset : i \in 1..Len(generated.routes)}
    /\ UNCHANGED <<buildInputs, buildSitemap, pendingRules, allAssets,
                   copiedDirectly, buildResult, outsideBuild>>

\* one turn of the last loop over allAssets: an asset that is in
\* processedAssets is passed over, another one is copied by copyAssetDirectly
CopyRemaining ==
    /\ pc = "routes"
    /\ pendingRules = <<>>
    /\ pendingAssets = {}
    /\ \E asset \in allAssets :
         /\ allAssets' = allAssets \ {asset}
         /\ IF asset \in processedAssets
            THEN UNCHANGED <<pc, copiedDirectly, outputFiles>>
            ELSE IF CanCopy(asset, asset, ReadableFiles, outputFiles)
            THEN /\ outputFiles' = copyAssetToOutput(asset, asset, outputFiles)
                 /\ copiedDirectly' = copiedDirectly + 1
                 /\ UNCHANGED pc
            ELSE pc' = "died" /\ UNCHANGED <<copiedDirectly, outputFiles>>
    /\ UNCHANGED <<buildInputs, buildSitemap, pendingRules, pendingAssets,
                   generatedRoutes, processedAssets, buildResult, outsideBuild>>

\* return {success: true, generatedFiles: ..., routes: generatedRoutes}
ReturnBuild ==
    /\ pc = "routes"
    /\ pendingRules = <<>>
    /\ pendingAssets = {}
    /\ allAssets = {}
    /\ buildResult' = [success |-> TRUE,
                       generatedFiles |-> Len(generatedRoutes) + copiedDirectly,
                       routes |-> generatedRoutes]
    /\ pc' = "built"
    /\ UNCHANGED <<buildInputs, buildSitemap, pendingRules, pendingAssets, allAssets,
                   generatedRoutes, processedAssets, copiedDirectly, outputFiles,
                   outsideBuild>>

NextBuild ==
    \/ LoadSitemap \/ DiscoverAssets \/ GenerateRoutes \/ GenerateRoutesForAsset
    \/ CopyRemaining \/ ReturnBuild

SpecBuild == InitBuild /\ [][NextBuild]_vars

----------------------------------------------------------------------------
(* SpecOutputPath: the output path of one route URL, as each version of
   the generator derives it: generateOutputPath(url) of the forward guess
   and generateStaticOutputPath(urlPattern) of the pattern inversion. *)

MaxUrlLen == 4

UrlChars == {"a", ".", "/"}

\* the route URLs of the check
Urls == SeqsUpTo(UrlChars, MaxUrlLen)

InitOutputPath ==
    /\ pc = "url"
    /\ urlIn \in Urls
    /\ generatedPath = Nothing
    /\ staticPath = Nothing
    /\ IdleOutsideOutputPath

\* const outputPath = generateOutputPath(url)
GenerateOutputPath ==
    /\ pc = "url"
    /\ ~generatedPath.defined
    /\ generatedPath' = Just(generateOutputPath(urlIn))
    /\ UNCHANGED <<pc, urlIn, staticPath, outsideOutputPath>>

\* const outputPath = generateStaticOutputPath(routeUrl)
GenerateStaticOutputPath ==
    /\ pc = "url"
    /\ ~staticPath.defined
    /\ staticPath' = Just(generateStaticOutputPath(urlIn))
    /\ UNCHANGED <<pc, urlIn, generatedPath, outsideOutputPath>>

NextOutputPath == GenerateOutputPath \/ GenerateStaticOutputPath

SpecOutputPath == InitOutputPath /\ [][NextOutputPath]_vars

----------------------------------------------------------------------------
(* Properties of PatternMatcher.substitute (SpecSubstitute) *)

\* t has at position i a placeholder with n digits: '{', n digits, '}'
IsPlaceholderAt(t, i, n) ==
    /\ n >= 1
    /\ i + n + 1 <= Len(t)
    /\ t[i] = "{"
    /\ \A j \in (i + 1)..(i + n) : t[j] \in DigitChars
    /\ t[i + n + 1] = "}"

\* the number of digits of the placeholder of t at i, 0 if there is none
PlaceholderDigits(t, i) ==
    IF \E n \in 1..Len(t) : IsPlaceholderAt(t, i, n)
    THEN CHOOSE n \in 1..Len(t) : IsPlaceholderAt(t, i, n)
    ELSE 0

\* position i of t is inside a placeholder that starts before i
InsidePlaceholder(t, i) ==
    \E b \in 1..(i - 1) :
        PlaceholderDigits(t, b) > 0 /\ i <= b + PlaceholderDigits(t, b) + 1

\* what position i of t contributes: the capture of a placeholder in range,
\* the text of one out of range, nothing inside one, else the character
Piece(t, caps, i) ==
    LET n == PlaceholderDigits(t, i) IN
    IF n > 0
    THEN LET k == parseInt(SubSeq(t, i + 1, i + n)) IN
         IF k < Len(caps) THEN caps[k + 1] ELSE SubSeq(t, i, i + n + 1)
    ELSE IF InsidePlaceholder(t, i) THEN <<>>
    ELSE <<t[i]>>

RECURSIVE Pieces(_, _, _)
\* the contributions of the positions i..Len(t), one after the other
Pieces(t, caps, i) ==
    IF i > Len(t) THEN <<>> ELSE Piece(t, caps, i) \o Pieces(t, caps, i + 1)

\* C13: substitute returns, for every template and every list of captures,
\* the template with each placeholder {k} replaced by captures[k] when k is
\* in range and left as written when it is not, every other character
\* unchanged; substitute('{1}/{99}', ['folder/about', 'folder']) is
\* 'folder/{99}'.
C13_SubstituteTotal ==
    (pc = "substituted") =>
        /\ substituted = Pieces(templateIn, capturesIn, 1)
        /\ (templateIn = S_template1and99 /\ capturesIn = S_folderCaptures) =>
               substituted = S_folder \o <<"/", "{", "9", "9", "}">>

\* C13 witness: '{1}/{99}' was substituted with two captures: {1} was
\* replaced and {99}, out of range, was left as written
C13_Witness ==
    /\ pc = "substituted"
    /\ templateIn = S_template1and99
    /\ capturesIn = S_folderCaptures
    /\ substituted = S_folder \o <<"/", "{", "9", "9", "}">>

----------------------------------------------------------------------------
(* Properties of SitemapRouter.matchRequest (SpecRouter) *)

\* the positions in rules of the rules whose pattern matches p
Hits(rules, p) ==
    {i \in 1..Len(rules) : match(p, rules[i].pattern).tag = "Some"}

Least(S) == CHOOSE i \in S : \A j \in S : i <= j

MultiPipelineSitemap ==
    TwoPipelines(<<Rule(S_special, ReadRange(S_specialFile, FALSE)),
                   Rule(<<"*", "*">>, ReadRange(S_1html, FALSE))>>, 1)

\* C1: every result matchRequest returns is that of the first rule, in
\* document order over the pipelines and then over the matches of each
\* pipeline, whose pattern matches the cleaned path, and it is unmatched
\* when no rule matches; the literal rule 'special' of pipeline 1 wins over
\* the catch-all '**' of pipeline 2.
C1_FirstMatchWins ==
    (pc = "routed" /\ routeMatch.outcome = "return") =>
        LET rules == RulesInOrder(sitemap.pipelines)
            clean == CleanPath(pathname)
            hits == Hits(rules, clean)
        IN  /\ IF hits = {} THEN routeMatch.value = Unmatched
               ELSE LET rule == rules[Least(hits)] IN
                    routeMatch.value =
                        [matched |-> TRUE,
                         assetPath |-> ResolveAssetPath(rule, clean,
                                          match(clean, rule.pattern).substitutions),
                         action |-> rule.action]
            /\ (sitemap = MultiPipelineSitemap /\ clean = S_special) =>
                   /\ routeMatch.value.matched
                   /\ routeMatch.value.assetPath = S_specialFile

\* C1 witness: 'special' was routed through the two pipelines, both of
\* whose rules match it, and the rule of pipeline 1 gave the result
C1_Witness ==
    /\ pc = "routed"
    /\ sitemap = MultiPipelineSitemap
    /\ pathname = S_special
    /\ Cardinality(Hits(RulesInOrder(sitemap.pipelines), pathname)) = 2
    /\ routeMatch.outcome = "return"
    /\ routeMatch.value.matched
    /\ routeMatch.value.assetPath = S_specialFile

\* the part of p after its last '/'
LastSegment(p) ==
    IF Contains(p, "/")
    THEN From(p, 1 + CHOOSE i \in 1..Len(p) :
                        p[i] = "/" /\ \A j \in (i + 1)..Len(p) : p[j] # "/")
    ELSE p

\* the asset path the rules of C6 give for a cleaned path
C6_Expected(p) ==
    IF p = <<>> THEN S_indexHtml
    ELSE IF p[Len(p)] = "/" THEN SubSeq(p, 1, Len(p) - 1) \o <<"/">> \o S_indexHtml
    ELSE IF Contains(LastSegment(p), ".") THEN p
    ELSE p \o S_html

\* C6: with the default sitemap every path is resolved: the empty path to
\* 'index.html', a path ending in '/' to the path without that '/' followed
\* by '/index.html', a path whose last segment contains '.' to itself, any
\* other path p to p + '.html'.
C6_DefaultResolution ==
    (pc = "routed" /\ sitemap = generateDefaultSitemap) =>
        /\ routeMatch.outcome = "return"
        /\ routeMatch.value.matched
        /\ routeMatch.value.assetPath = C6_Expected(CleanPath(pathname))

IsVideoPath(p) == \E e \in VideoExtensions : EndsWith(p, <<".">> \o e)

\* C7: with the default sitemap a path ending in one of the five video
\* extensions resolves to itself with rangeSupport = true, and no other path
\* is resolved with rangeSupport = true.
C7_VideoRangeSupport ==
    (pc = "routed" /\ sitemap = generateDefaultSitemap) =>
        LET clean == CleanPath(pathname) IN
        IF IsVideoPath(clean)
        THEN /\ routeMatch.outcome = "return"
             /\ routeMatch.value.matched
             /\ routeMatch.value.assetPath = clean
             /\ Has(routeMatch.value.action, "rangeSupport")
             /\ routeMatch.value.action.rangeSupport = TRUE
        ELSE ~ /\ routeMatch.outcome = "return"
               /\ routeMatch.value.matched
               /\ Has(routeMatch.value.action, "rangeSupport")
               /\ routeMatch.value.action.rangeSupport = TRUE

\* C14: a matched result of matchRequest carries the action of the first
\* matching rule, and its assetPath is, for a Read or a Transform action, the
\* src template with each placeholder replaced by the capture of the match,
\* and for a Generate action the cleaned request path; the rule 'api/**' with
\* src 'data/{1}.json' resolves 'api/users' to 'data/users.json'.
C14_AssetPathByActionKind ==
    (pc = "routed" /\ routeMatch.outcome = "return" /\ routeMatch.value.matched) =>
        LET rules == RulesInOrder(sitemap.pipelines)
            clean == CleanPath(pathname)
            hits == Hits(rules, clean)
        IN  /\ hits # {}
            /\ LET rule == rules[Least(hits)]
                    captures == match(clean, rule.pattern).substitutions
                IN  /\ routeMatch.value.action = rule.action
                    /\ rule.action.type \in {"read", "transform"} =>
                          routeMatch.value.assetPath = Pieces(rule.action.src, captures, 1)
                    /\ rule.action.type = "generate" =>
                          routeMatch.value.assetPath = clean
            /\ (sitemap = ApiSitemap /\ clean = S_apiUsers) =>
                   routeMatch.value.assetPath = S_dataUsersJson

\* C14 witness: '/api/users' was routed by the rule 'api/**' and resolved to
\* 'data/users.json'
C14_Witness ==
    /\ pc = "routed"
    /\ sitemap = ApiSitemap
    /\ pathname = <<"/">> \o S_apiUsers
    /\ routeMatch.outcome = "return"
    /\ routeMatch.value.matched
    /\ routeMatch.value.assetPath = S_dataUsersJson
    /\ routeMatch.value.action = ReadRange(S_dataSrc, FALSE)

----------------------------------------------------------------------------
(* Properties of PatternMatcher.match (SpecMatcher) *)

\* C8: a pattern without a wildcard matches itself with the captures [P] and
\* matches no other path.
C8_LiteralPatternMatchesOnlyItself ==
    (pc = "matched" /\ ~Contains(pattern, "*")) =>
        IF path = pattern THEN matchResult = Some(<<pattern>>)
        ELSE matchResult = None

RECURSIVE WildcardTokens(_)
\* the wildcard tokens of a pattern from left to right: "**" or "*"
WildcardTokens(p) ==
    IF p = <<>> THEN <<>>
    ELSE IF Len(p) >= 2 /\ p[1] = "*" /\ p[2] = "*"
         THEN <<"**">> \o WildcardTokens(Tail(Tail(p)))
    ELSE IF p[1] = "*" THEN <<"*">> \o WildcardTokens(Tail(p))
    ELSE WildcardTokens(Tail(p))

S_folderAbout == S_folder \o <<"/">> \o S_about

\* C9: in every successful match the capture of each '*' token contains no
\* '/'; match('folder/about', '*') fails and match('about', '*') succeeds
\* with the captures ['about', 'about'].
C9_SingleStarNeverCrossesSlash ==
    (pc = "matched") =>
        /\ matchResult.tag = "Some" =>
              LET tokens == WildcardTokens(pattern) IN
              \A k \in 1..Len(tokens) :
                 (tokens[k] = "*" /\ k + 1 <= Len(matchResult.substitutions)) =>
                     ~Contains(matchResult.substitutions[k + 1], "/")
        /\ (pattern = <<"*">> /\ path = S_folderAbout) => matchResult = None
        /\ (pattern = <<"*">> /\ path = S_about) =>
              matchResult = Some(<<S_about, S_about>>)

\* C9 witness: a '*' between two separators matched and captured a segment,
\* in a path that has '/' on both sides of it
C9_Witness ==
    /\ pc = "matched"
    /\ pattern = <<"/", "*", "/">>
    /\ path = <<"/", "a", "/">>
    /\ matchResult = Some(<<<<"/", "a", "/">>, <<"a">>>>)

S_folderSubfolderSlash == S_folder \o <<"/">> \o S_subfolder \o <<"/">>

\* C10: '**' matches every non-empty path p with the captures [p, p], and
\* match('folder/subfolder/', '**/') succeeds with the captures
\* ['folder/subfolder/', 'folder/subfolder'].
C10_DoubleStarMatchesEveryPath ==
    (pc = "matched") =>
        /\ (pattern = <<"*", "*">> /\ path # <<>>) => matchResult = Some(<<path, path>>)
        /\ (pattern = <<"*", "*", "/">> /\ path = S_folderSubfolderSlash) =>
              matchResult = Some(<<path, S_folder \o <<"/">> \o S_subfolder>>)

RECURSIVE Rebuild(_, _)
\* the pattern with its wildcard tokens replaced, from left to right, by caps
Rebuild(p, caps) ==
    IF p = <<>> THEN <<>>
    ELSE IF Len(p) >= 2 /\ p[1] = "*" /\ p[2] = "*"
         THEN Head(caps) \o Rebuild(Tail(Tail(p)), Tail(caps))
    ELSE IF p[1] = "*" THEN Head(caps) \o Rebuild(Tail(p), Tail(caps))
    ELSE <<p[1]>> \o Rebuild(Tail(p), caps)

\* C11: a successful match against a pattern with N wildcard tokens returns
\* N + 1 captures, all of them strings: the first is the whole path and the
\* next N are what the wildcards took, in the order of the pattern, so that
\* the pattern with each wildcard replaced by its capture is the path; a
\* pattern without wildcard returns one capture; match('api/v1/users.json',
\* 'api/*/*.json') gives ['api/v1/users.json', 'v1', 'users'].
C11_CapturesPerWildcard ==
    (pc = "matched" /\ matchResult.tag = "Some") =>
        LET subs == matchResult.substitutions
            n == Len(WildcardTokens(pattern))
        IN  /\ Len(subs) = n + 1
            /\ subs[1] = path
            /\ \A k \in 1..Len(subs) : subs[k] # Undefined
            /\ Rebuild(pattern, Tail(subs)) = path
            /\ (pattern = S_apiStarStarJson /\ path = S_apiV1UsersJson) =>
                   subs = <<path, <<"v", "1">>, <<"u", "s", "e", "r", "s">>>>

\* C12: the empty pattern matches the empty path with the captures [''] and
\* no other path, and no other pattern matches the empty path, '*' and '**'
\* included.
C12_EmptyPatternEmptyPath ==
    (pc = "matched") =>
        /\ (pattern = <<>> /\ path = <<>>) => matchResult = Some(<< <<>> >>)
        /\ (pattern # <<>> /\ path = <<>>) => matchResult = None
        /\ (pattern = <<>> /\ path # <<>>) => matchResult = None

\* C12 witness: '**' was matched against the empty path and did not match
C12_Witness ==
    /\ pc = "matched"
    /\ pattern = <<"*", "*">>
    /\ path = <<>>
    /\ matchResult = None

----------------------------------------------------------------------------
(* Properties of ButterflyHandler.process (Spec) *)

\* the call in flight loaded a document and SitemapParser.parse failed on it
ParseFailed ==
    maybeSitemapXml.some /\ parse(maybeSitemapXml.xml).either = "Left"

\* the call in flight loaded a document and SitemapParser.parse returned
ParseSucceeded ==
    maybeSitemapXml.some /\ parse(maybeSitemapXml.xml).either = "Right"

\* the handler result agrees with the route match rm in matched and asset path
RoutedAs(rm) ==
    /\ result.value.matched = rm.matched
    /\ rm.matched => result.value.assetPath = rm.assetPath

\* C2: when the document is present and parse fails, process routes with
\* the default sitemap and attaches sitemapValidation = {success: false,
\* errors: [message]} with the one message of the failure; process('/about')
\* then returns matched with assetPath 'about.html'.
C2_ParseFailureFallsBackToDefault ==
    (pc = "done" /\ ParseFailed) =>
        /\ result.outcome = "return"
        /\ Has(result.value, "sitemapValidation")
        /\ result.value.sitemapValidation =
              [success |-> FALSE,
               errors |-> <<parse(maybeSitemapXml.xml).left.message>>]
        /\ RoutedAs(matchRequest(pathname, generateDefaultSitemap).value)
        /\ pathname = S_slashAbout =>
              result.value.matched /\ result.value.assetPath = S_aboutHtml

\* C2 witness: '/about' was served while the document had a read action
\* with an empty src, which parse rejects with a validation error
C2_Witness ==
    /\ pc = "done"
    /\ maybeSitemapXml.some
    /\ maybeSitemapXml.xml = InvalidSchemaXml
    /\ parse(maybeSitemapXml.xml).left.tag = "SitemapValidationError"
    /\ pathname = S_slashAbout
    /\ result.value.matched
    /\ result.value.assetPath = S_aboutHtml
    /\ ~result.value.sitemapValidation.success

\* C3: process never ends in failure because of the sitemap: whenever the
\* document is absent, fails to load, or does not parse, it returns a result.
C3_SitemapNeverFailsRequest ==
    (pc = "failed") => ParseSucceeded

\* C4: when the document is not found, process routes with the default
\* sitemap and the result has no sitemapValidation, matched or not.
C4_AbsentDocumentHasNoValidation ==
    (pc = "done" /\ ~maybeSitemapXml.some) =>
        /\ result.outcome = "return"
        /\ ~Has(result.value, "sitemapValidation")
        /\ RoutedAs(matchRequest(pathname, generateDefaultSitemap).value)

\* C4 witness: '/about' was served from the default sitemap with no document
\* in the store
C4_Witness ==
    /\ pc = "done"
    /\ ~maybeSitemapXml.some
    /\ pathname = S_slashAbout
    /\ result.value.matched
    /\ result.value.assetPath = S_aboutHtml
    /\ ~Has(result.value, "sitemapValidation")

\* C5: when the custom sitemap parses, every result of process comes from
\* the custom sitemap alone: an unmatched path gives exactly {matched: false,
\* fallbackToDefault: true, sitemapValidation: {success: true}}, also when a
\* default rule would match it, and a matched path gives sitemapValidation
\* {success: true} and the custom rule's asset path.
C5_CustomSitemapOnly ==
    (pc = "done" /\ ParseSucceeded) =>
        LET rm == matchRequest(pathname, parse(maybeSitemapXml.xml).right).value IN
        /\ result.outcome = "return"
        /\ IF ~rm.matched
           THEN result.value = [matched |-> FALSE, fallbackToDefault |-> TRUE,
                                sitemapValidation |-> [success |-> TRUE]]
           ELSE /\ result.value.matched
                /\ result.value.assetPath = rm.assetPath
                /\ result.value.sitemapValidation = [success |-> TRUE]

\* C5 witness: '/unmatched-route' went unmatched through the custom sitemap
\* 'api/**' although the default sitemap has a rule for it
C5_Witness ==
    /\ pc = "done"
    /\ maybeSitemapXml.some
    /\ maybeSitemapXml.xml = CustomSitemapXml
    /\ pathname = <<"/", "u", "n", "m", "a", "t", "c", "h", "e", "d", "-", "r", "o", "u", "t", "e">>
    /\ matchRequest(pathname, generateDefaultSitemap).value.matched
    /\ ~result.value.matched
    /\ result.value.sitemapValidation.success

\* C15: every matched result of process has a boolean rangeSupport: that of
\* the matched action when it is a Read action that declares one, false for
\* a Read action that declares none, and false for a Generate or a Transform
\* action.
C15_RangeSupportIsBoolean ==
    (pc = "done" /\ result.value.matched) =>
        LET action == routeMatch.value.action IN
        /\ Has(result.value, "rangeSupport")
        /\ result.value.rangeSupport \in BOOLEAN
        /\ result.value.rangeSupport =
              (action.type = "read" /\ Has(action, "rangeSupport")
                                    /\ action.rangeSupport)

----------------------------------------------------------------------------
(* Properties of SitemapParser.parse (SpecParser) *)

ParseEnded == pc \in {"rejected", "parsed"}

\* the element e has the attribute or child k
HasChild(e, k) == e.t = "object" /\ k \in DOMAIN e.obj

\* the document has the root element map:sitemap
RootPresent(doc) == doc.wellFormed /\ HasChild(doc.tree, "map:sitemap")

\* the document has the root and, in it, the container map:pipelines
PipelinesPresent(doc) ==
    RootPresent(doc) /\ HasChild(doc.tree.obj["map:sitemap"], "map:pipelines")

\* the pipeline elements of the document, in document order
PipelineElementsOf(doc) ==
    IF ~PipelinesPresent(doc) THEN <<>>
    ELSE LET container == doc.tree.obj["map:sitemap"].obj["map:pipelines"] IN
         IF HasChild(container, "map:pipeline")
         THEN AsArray(container.obj["map:pipeline"]) ELSE <<>>

\* the match elements of a pipeline element, in document order
MatchElementsOf(pipelineElement) ==
    IF HasChild(pipelineElement, "map:match")
    THEN AsArray(pipelineElement.obj["map:match"]) ELSE <<>>

\* C16: parse fails with a StructureError and returns no Sitemap when the
\* root or the pipelines container is absent: the error names 'map:sitemap'
\* when the document has no root element map:sitemap, and 'map:pipelines'
\* when it has the root but not the container.
C16_StructureErrorNamesMissingElement ==
    ParseEnded =>
        /\ (xmlDocument.wellFormed /\ ~RootPresent(xmlDocument)) =>
               parseResult = Left(SitemapStructureError(
                                    "Root element 'map:sitemap' not found", "map:sitemap"))
        /\ (RootPresent(xmlDocument) /\ ~PipelinesPresent(xmlDocument)) =>
               parseResult = Left(SitemapStructureError(
                                    "'map:pipelines' element not found", "map:pipelines"))

\* the attribute attr of the element e is missing or empty
MissingOrEmpty(e, attr) == ~HasChild(e, attr) \/ e.obj[attr] = Str(<<>>)

\* the match element m has an action child without a required attribute
HasIncompleteAction(m) ==
    \/ HasChild(m, "map:read") /\ MissingOrEmpty(m.obj["map:read"], "@_src")
    \/ HasChild(m, "map:generate") /\ MissingOrEmpty(m.obj["map:generate"], "@_generator")
    \/ HasChild(m, "map:transform")
          /\ \/ MissingOrEmpty(m.obj["map:transform"], "@_src")
             \/ MissingOrEmpty(m.obj["map:transform"], "@_transformer")

DocumentHasIncompleteAction(doc) ==
    LET ps == PipelineElementsOf(doc) IN
    \E i \in 1..Len(ps) :
        LET ms == MatchElementsOf(ps[i]) IN
        \E j \in 1..Len(ms) : HasIncompleteAction(ms[j])

\* every required attribute of the action a of a Sitemap is a non-empty string
CompleteAction(a) ==
    /\ a.type \in {"read", "transform"} => a.src # <<>>
    /\ a.type = "generate" => a.generator # <<>>
    /\ a.type = "transform" => a.transformer # <<>>

\* C17: parse rejects with a ValidationError every document in which a read
\* action has a missing or empty src, a generate action a missing or empty
\* generator, or a transform action a missing or empty src or transformer;
\* every action of a Sitemap that parse returns has its required attributes
\* non-empty.
C17_IncompleteActionRejected ==
    ParseEnded =>
        /\ DocumentHasIncompleteAction(xmlDocument) =>
               /\ parseResult.either = "Left"
               /\ parseResult.left.tag = "SitemapValidationError"
        /\ parseResult.either = "Right" =>
               LET rules == RulesInOrder(parseResult.right.pipelines) IN
               \A i \in 1..Len(rules) : CompleteAction(rules[i].action)

\* C18: a document with the root and the pipelines container but without a
\* pipeline element is rejected with the ValidationError 'At least one
\* pipeline is required', and no Sitemap that parse returns has zero
\* pipelines.
C18_NoPipelineRejected ==
    ParseEnded =>
        /\ (PipelinesPresent(xmlDocument) /\ PipelineElementsOf(xmlDocument) = <<>>) =>
               parseResult =
                   Left(SitemapValidationError("At least one pipeline is required"))
        /\ parseResult.either = "Right" => Len(parseResult.right.pipelines) >= 1

\* the pattern attribute of a match element, "" when it has none
PatternOf(m) == IF HasChild(m, "@_pattern") THEN m.obj["@_pattern"] ELSE Str(<<>>)

----------------------------------------------------------------------------
(* Properties of SSGGenerator.build (SpecBuild) *)

\* the number of occurrences of sub in s
Occurrences(s, sub) ==
    Cardinality({i \in 1..(Len(s) - Len(sub) + 1) : SubSeq(s, i, i + Len(sub) - 1) = sub})

\* a read rule whose src has one {1} and whose pattern has one wildcard
InvertibleRule(rule) ==
    /\ rule.action.type = "read"
    /\ Occurrences(rule.action.src, S_placeholder1) = 1
    /\ Len(WildcardTokens(rule.pattern)) = 1

\* the text of the template before and after its {1}
BeforePlaceholder(src) == SubSeq(src, 1, IndexOf(src, S_placeholder1) - 1)
AfterPlaceholder(src) == From(src, IndexOf(src, S_placeholder1) + 3)

\* file is the template src with some value in place of {1}
FitsTemplate(src, file) ==
    /\ Len(file) > Len(BeforePlaceholder(src)) + Len(AfterPlaceholder(src))
    /\ SubSeq(file, 1, Len(BeforePlaceholder(src))) = BeforePlaceholder(src)
    /\ EndsWith(file, AfterPlaceholder(src))

\* that value
RecoveredValue(src, file) ==
    SubSeq(file, Len(BeforePlaceholder(src)) + 1, Len(file) - Len(AfterPlaceholder(src)))

\* the URL pattern with value in place of its wildcard
FillWildcard(pat, value) ==
    IF Includes(pat, <<"*", "*">>) THEN ReplaceFirst(pat, <<"*", "*">>, value)
    ELSE ReplaceFirst(pat, <<"*">>, value)

\* the patterns of the generated routes whose sourceAsset is asset
RoutePatternsOf(asset) ==
    {generatedRoutes[k].pattern :
        k \in {n \in 1..Len(generatedRoutes) : generatedRoutes[n].sourceAsset = asset}}

S_apiA == <<"a", "p", "i", "/", "a">>
S_apiB == <<"a", "p", "i", "/", "b">>

\* C20: enumerator completeness. When a build has succeeded, every asset
\* that is the src template of a read rule with some value in place of {1}
\* has a generated route whose pattern is the URL pattern of the rule with
\* that value in place of its wildcard; with the one rule 'api/**' ->
\* 'data/{1}.json' and an inventory holding data/a.json and data/b.json,
\* the routes of these two assets have the patterns 'api/a' and 'api/b' and
\* no other.
C20_EnumeratorCompleteness ==
    pc = "built" =>
        /\ \A i \in 1..Len(RulesInOrder(buildSitemap.pipelines)) :
             LET rule == RulesInOrder(buildSitemap.pipelines)[i] IN
             InvertibleRule(rule) =>
                \A asset \in discoverAssets(sourceFiles) :
                    FitsTemplate(rule.action.src, asset) =>
                        FillWildcard(rule.pattern, RecoveredValue(rule.action.src, asset))
                            \in RoutePatternsOf(asset)
        /\ (buildSitemap = ApiSitemap /\ {S_dataAJson, S_dataBJson} \subseteq sourceFiles) =>
                /\ RoutePatternsOf(S_dataAJson) = {S_apiA}
                /\ RoutePatternsOf(S_dataBJson) = {S_apiB}

S_apiSD == <<"a", "p", "i", "/", "s", "/", "d">>

\* request paths a visitor may ask the built site for
BuildRequests ==
    {<<>>, S_about, S_test, S_apiA, S_apiB, S_apiSD, S_indexHtml, S_aboutHtml,
     S_dataAJson}

\* the Router answers the request with asset
AnswersWith(r, asset) ==
    r.outcome = "return" /\ r.value.matched /\ r.value.assetPath = asset

\* some rule of the sitemap of the build resolves a request to asset
ResolvedBySomeRule(asset) ==
    \E p \in BuildRequests : AnswersWith(matchRequest(p, buildSitemap), asset)

\* asset was copied as it is to the same relative path of the output
CopiedVerbatim(asset) == [path |-> asset, from |-> asset] \in outputFiles

\* C21: no asset is silently dropped. When a build has succeeded, every
\* asset of the inventory is the sourceAsset of a generated route or was
\* copied verbatim to the same relative path of the output, and every asset
\* that the sitemap resolves some request to is the sourceAsset of a
\* generated route.
C21_NoAssetDropped ==
    pc = "built" =>
        \A asset \in discoverAssets(sourceFiles) :
            /\ RoutePatternsOf(asset) # {} \/ CopiedVerbatim(asset)
            /\ ResolvedBySomeRule(asset) => RoutePatternsOf(asset) # {}

----------------------------------------------------------------------------
(* Properties of the output path of a route URL (SpecOutputPath) *)

\* the URL without one leading '/'
WithoutLeadingSlash(u) == IF StartsWith(u, "/") THEN Tail(u) ELSE u

\* the output path the rules of derivation give the URL u: index.html for
\* '' and '/'; else, of u without one leading '/': below it index.html
\* when it ends in '/', itself when its last segment has an extension, and
\* index.html below it when it has none
DerivedOutputPath(u) ==
    IF u = <<>> \/ u = <<"/">> THEN S_indexHtml
    ELSE IF EndsWith(WithoutLeadingSlash(u), <<"/">>)
    THEN Normalize(WithoutLeadingSlash(u) \o S_indexHtml)
    ELSE IF extname(WithoutLeadingSlash(u)) # <<>> THEN WithoutLeadingSlash(u)
    ELSE Normalize(WithoutLeadingSlash(u) \o <<"/">> \o S_indexHtml)

\* C22: the output path of a route URL is derived the same way by both
\* build paths. generateOutputPath and generateStaticOutputPath return the
\* same path for every URL, and that path is: index.html for '' and '/';
\* '<url>/index.html' for a URL ending in '/'; the URL unchanged when its
\* last segment has a file extension; '<url>/index.html' for a URL without
\* extension; all after one leading '/' was dropped.
C22_OutputPathDerivation ==
    (generatedPath.defined /\ staticPath.defined) =>
        /\ generatedPath.value = staticPath.value
        /\ generatedPath.value = DerivedOutputPath(urlIn)
        /\ staticPath.value = DerivedOutputPath(urlIn)

\* C23: a failed copy does not abort the build. The build is never left by
\* the defect that Effect.orDie makes of a copy that failed (an unreadable
\* source file, a destination that cannot be written): it goes on with the
\* assets that remain and returns a result.
C23_CopyFailureDoesNotAbort == pc # "died"

\* C28: every GeneratedRoute is sound against the Router. For every route
\* of the result of a build, of either version, matchRequest(route.pattern,
\* sitemap) is matched and its assetPath is route.sourceAsset.
C28_RoutesSoundAgainstRouter ==
    pc = "built" =>
        \A i \in 1..Len(buildResult.routes) :
            AnswersWith(matchRequest(buildResult.routes[i].pattern, buildSitemap),
                        buildResult.routes[i].sourceAsset)

----------------------------------------------------------------------------
(* SpecCalls: several SitemapRouter.matchRequest calls in flight over one
   Sitemap value they share by reference. A call is the Effect.sync body of
   matchRequest; the calls are interleaved at every turn of its loop over
   the matches, which is finer than any schedule of whole calls. *)

MaxCalls == 2

\* the request paths of the calls
CallPaths == {S_slashAbout, S_test, <<"/">> \o S_special}

\* a sitemap whose second pattern does not compile
QuestionMarkSitemap ==
    [pipelines |-> <<[matches |-> <<Rule(S_test, ReadRange(S_testHtml, FALSE)),
                                   Rule(<<"?">>, ReadRange(<<"{", "0", "}">>, FALSE))>>]>>]

\* the Sitemap values the calls may share
SharedSitemaps ==
    {generateDefaultSitemap, MultiPipelineSitemap, ApiSitemap, QuestionMarkSitemap}

\* a call: its argument pathname, its local cleanPath, the match of the
\* sitemap its loop is to take next (in document order), and what it
\* returned
NoCall ==
    [state |-> "idle", pathname |-> <<>>, cleanPath |-> <<>>, next |-> 1,
     routeMatch |-> Return(Unmatched)]

\* the call after it returned r
Returned(call, r) == [call EXCEPT !.state = "returned", !.routeMatch = r]

\* one turn of the loop for the match rule whose pattern gave maybeResult
AfterMatch(call, rule, maybeResult) ==
    IF maybeResult.tag = "Throw" THEN Returned(call, Thrown("SyntaxError"))
    ELSE IF maybeResult.tag = "Some"
    THEN Returned(call, Return([matched |-> TRUE,
                                assetPath |-> ResolveAssetPath(rule, call.cleanPath,
                                                               maybeResult.substitutions),
                                action |-> rule.action]))
    ELSE [call EXCEPT !.next = call.next + 1]

\* the call after its next turn over the matches rules, or after the loops
AfterTurn(call, rules) ==
    IF call.next > Len(rules) THEN Returned(call, Return(Unmatched))
    ELSE AfterMatch(call, rules[call.next],
                    match(call.cleanPath, rules[call.next].pattern))

\* mutant: the position of the loop is shared by the calls in flight
TurnOfCallSharedPosition(cs, c, sm) ==
    [d \in DOMAIN cs |->
        IF d = c THEN AfterTurn(cs[c], RulesInOrder(sm.pipelines))
        ELSE IF cs[d].state = "running" THEN [cs[d] EXCEPT !.next = cs[c].next + 1]
        ELSE cs[d]]

\* the calls after one turn of the loop of call c: its locals change, and
\* nothing else does
TurnOfCall(cs, c, sm) ==
    [cs EXCEPT ![c] = AfterTurn(cs[c], RulesInOrder(sm.pipelines))]

InitCalls ==
    /\ pc = "calls"
    /\ sharedSitemap \in SharedSitemaps
    /\ calls = [c \in 1..MaxCalls |-> NoCall]
    /\ IdleOutsideCalls

\* a request comes in: matchRequest(pathname, sitemap) starts
CallMatchRequest ==
    /\ pc = "calls"
    /\ \E c \in DOMAIN calls, p \in CallPaths :
         /\ calls[c].state = "idle"
         /\ calls' = [calls EXCEPT ![c] = [NoCall EXCEPT !.state = "running",
                                                         !.pathname = p,
                                                         !.cleanPath = CleanPath(p)]]
    /\ UNCHANGED <<pc, sharedSitemap, outsideCalls>>

\* one turn of the loops of a call in flight
TryNextMatch ==
    /\ pc = "calls"
    /\ \E c \in DOMAIN calls :
         /\ calls[c].state = "running"
         /\ calls' = TurnOfCall(calls, c, sharedSitemap)
    /\ UNCHANGED <<pc, sharedSitemap, outsideCalls>>

NextCalls == CallMatchRequest \/ TryNextMatch

SpecCalls == InitCalls /\ [][NextCalls]_vars

----------------------------------------------------------------------------
(* Properties of concurrent matchRequest calls (SpecCalls) *)

\* every call that returned returned what matchRequest returns for its
\* pathname and the shared sitemap when it runs alone
ReturnedAsAlone ==
    \A c \in DOMAIN calls :
        calls[c].state = "returned"
            => calls[c].routeMatch = matchRequest(calls[c].pathname, sharedSitemap)

\* C24: matchRequest is a pure function of (path, sitemap). Calls that are
\* interleaved over one shared Sitemap each return what they return when
\* run alone, and no step of a call changes the Sitemap or the locals of
\* another call.
C24_MatchRequestPure ==
    /\ []ReturnedAsAlone
    /\ [][/\ sharedSitemap' = sharedSitemap
          /\ \A c, d \in DOMAIN calls :
                (c # d /\ calls'[c] # calls[c]) => calls'[d] = calls[d]]_vars

\* a call returned a match while another call was in the middle of its
\* loop over the same sitemap
C24_Witness ==
    /\ pc = "calls"
    /\ sharedSitemap = MultiPipelineSitemap
    /\ \E c, d \in DOMAIN calls :
         /\ calls[c].state = "returned"
         /\ calls[c].pathname = S_slashAbout
         /\ calls[c].routeMatch = Return([matched |-> TRUE, assetPath |-> S_aboutHtml,
                                          action |-> ReadRange(S_1html, FALSE)])
         /\ calls[d].state = "running"
         /\ calls[d].next = 2

----------------------------------------------------------------------------
(* Properties of process calls one after the other (SpecInTurn) *)

\* what process returns for a route match and the validation info
ResultOfRoute(rm, validation) ==
    IF rm.outcome = "throw" THEN rm ELSE Return(HandlerResult(rm.value, validation))

\* what process(p) returns for the sitemap and validation info sr
ResultOfSitemap(sr, p) == ResultOfRoute(matchRequest(p, sr.sitemap), sr.validation)

\* what process(p) returns when loadAsset gave loaded
ResultOfLoad(loaded, p) ==
    IF loaded.outcome = "throw" THEN loaded
    ELSE ResultOfSitemap(SitemapResult(loaded.value), p)

\* what process(p) returns over the asset store, with no call before it
ProcessedAlone(store, p) == ResultOfLoad(LoadSitemapXml(store), p)

\* C25: no sitemap is kept from one call to the next. Whatever calls came
\* before and whatever the asset store held then, a process call returns
\* what the content of the asset store at that call and its path give.
C25_NoSitemapCached ==
    [][(pc \notin {"done", "failed"} /\ pc' \in {"done", "failed"})
          => result' = ProcessedAlone(assetStore', pathname')]_vars

\* a call returned a match of the custom sitemap in the store
C25_Witness ==
    /\ pc = "done"
    /\ assetStore = [state |-> "present", content |-> CustomSitemapXml]
    /\ pathname = <<"/", "a", "p", "i", "/", "u", "s", "e", "r", "s">>
    /\ result.value.matched
    /\ result = ProcessedAlone(assetStore, pathname)

----------------------------------------------------------------------------
(* Properties of the leading '/' of a request (SpecRouter) *)

\* the request has one leading '/' and no more
SingleLeadingSlash(p) == StartsWith(p, "/") /\ ~StartsWith(Tail(p), "/")

\* C26: matchRequest strips exactly one leading '/'. A request '/' + p,
\* p without leading '/', gets the result of the request p; a request
\* '//x' is matched as the path '/x' with its '/'; and the patterns are
\* taken as they are, so that no rule whose pattern starts with '/'
\* matches a request with a single leading '/'.
C26_OneLeadingSlashStripped ==
    pc = "routed" =>
        /\ SingleLeadingSlash(pathname)
              => routeMatch = matchRequest(Tail(pathname), sitemap)
        /\ StartsWith(pathname, "/")
              => routeMatch = MatchPipelines(sitemap.pipelines, Tail(pathname))
        /\ ~StartsWith(pathname, "/")
              => routeMatch = MatchPipelines(sitemap.pipelines, pathname)
        /\ SingleLeadingSlash(pathname)
              => \A i \in 1..Len(RulesInOrder(sitemap.pipelines)) :
                    StartsWith(RulesInOrder(sitemap.pipelines)[i].pattern, "/")
                        => match(Tail(pathname),
                                 RulesInOrder(sitemap.pipelines)[i].pattern).tag # "Some"

----------------------------------------------------------------------------
(* Further properties of ButterflyHandler.process (Spec) *)

\* C27: the default sitemap is total. A call that routes with the default
\* sitemap, the document being absent or SitemapParser.parse having failed
\* on it, returns matched = true whatever the path, and the Router has
\* matched that path against the default sitemap.
C27_DefaultSitemapTotal ==
    (pc = "done" /\ (~maybeSitemapXml.some \/ ParseFailed)) =>
        /\ sitemap = generateDefaultSitemap
        /\ matchRequest(pathname, generateDefaultSitemap).value.matched
        /\ result.value.matched

\* C30: fallbackToDefault is the negation of matched. Every result of
\* process has fallbackToDefault = true when it is unmatched and false when
\* it is matched, also when the default sitemap stood in for a missing or
\* invalid custom sitemap; an unmatched result has no assetPath and no
\* rangeSupport.
C30_FallbackIsNotMatched ==
    pc = "done" =>
        /\ Has(result.value, "fallbackToDefault")
        /\ result.value.fallbackToDefault = ~result.value.matched
        /\ ~result.value.matched =>
              ~Has(result.value, "assetPath") /\ ~Has(result.value, "rangeSupport")

\* a matched result of the default sitemap that stood in for a document on
\* which parse failed
C30_Witness ==
    /\ pc = "done"
    /\ ParseFailed
    /\ pathname = S_slashAbout
    /\ result.value.matched
    /\ result.value.assetPath = S_aboutHtml
    /\ ~result.value.fallbackToDefault
    /\ ~result.value.sitemapValidation.success

============================================================================
